---- MODULE Spec2Model ----
(***************************************************************************)
(* Model of scripts/sync.py, the Rust <-> Godot build synchroniser: the    *)
(* main thread, the optional "wasm-build" daemon thread, the external      *)
(* build processes they launch, the plugin bin directories, the terminal   *)
(* and the wasm build log.                                                 *)
(***************************************************************************)
EXTENDS Integers, Sequences, FiniteSets, TLC

\* The number of output lines an external build process prints before it
\* closes its output.
MaxLines == 2

Threads == {"main", "worker"}
Targets == {"mac", "wasm"}
Profiles == {"debug", "release"}
Steps == Targets \X Profiles

\* Return codes of an external build process.
ReturnCodes == {0, 101}

\* ------------------------------------------------------------------------
\* Environments: mappings name -> value.  PATH is kept as the sequence of
\* its os.pathsep-separated entries, every other variable as a string.

\* os.environ as the run finds it: it may name an output directory and a
\* debug profile of its own.
AmbientEnvs ==
    { [PATH |-> <<"/usr/bin">>, CARGO_TARGET_DIR |-> "rust/target-mac",
       CARGO_PROFILE_DEV_DEBUG |-> "true"] }

\* What `source ~/.cargo/env && env` prints, as KEY=VALUE pairs; NoShell when
\* the file is absent or the login shell fails.
NoShell == [NONE |-> "none"]
ShellEnvs == { NoShell, [PATH |-> <<"~/.cargo/bin", "/usr/bin">>] }

\* dict[key] = value
Put(e, k, v) == [n \in DOMAIN e \cup {k} |-> IF n = k THEN v ELSE e[n]]

\* dict.update(other)
Update(e, d) == [n \in DOMAIN e \cup DOMAIN d |-> IF n \in DOMAIN d THEN d[n] ELSE e[n]]

\* [entry for entry in PATH.split(os.pathsep) if entry]
PathEntries(e) ==
    IF "PATH" \in DOMAIN e THEN SelectSeq(e["PATH"], LAMBDA x : x # "") ELSE <<>>

InSeq(x, s) == \E i \in 1..Len(s) : s[i] = x

rustup_bin == "~/.cargo/bin"

\* A prepend that does not look for the directory among the entries.
PrependRustup_Unchecked(e, exists) ==
    IF exists THEN Put(e, "PATH", <<rustup_bin>> \o PathEntries(e)) ELSE e

\* The search-path step of main: prepend ~/.cargo/bin when it exists and is
\* not an entry yet.
PrependRustup(e, exists) ==
    IF exists /\ ~InSeq(rustup_bin, PathEntries(e))
    THEN Put(e, "PATH", <<rustup_bin>> \o PathEntries(e))
    ELSE e

\* The shell-environment merge of main.
MergeShell(e, shell) == IF shell = NoShell THEN e ELSE Update(e, shell)

\* What shutil.which finds for the two compiler caches.
CacheTools == {"sccache", "ccache"}

\* A configure_cache that prefers ccache.
configure_cache_CcacheFirst(e, enable, found) ==
    IF ~enable THEN e
    ELSE IF "ccache" \in found THEN Put(e, "RUSTC_WRAPPER", "/bin/ccache")
    ELSE IF "sccache" \in found THEN Put(e, "RUSTC_WRAPPER", "/bin/sccache")
    ELSE e

\* configure_cache: the mapping after the call (it is updated in place).
configure_cache(e, enable, found) ==
    IF ~enable THEN e
    ELSE IF "sccache" \in found THEN Put(e, "RUSTC_WRAPPER", "/bin/sccache")
    ELSE IF "ccache" \in found THEN Put(e, "RUSTC_WRAPPER", "/bin/ccache")
    ELSE e

\* configure_cache issues `sccache --start-server` exactly when sccache is chosen.
CacheWarmUp(enable, found) == enable /\ "sccache" \in found

\* One output directory for both targets, as rust/sync.sh had it.
target_dirs_Shared(t) == "rust/target"

\* target_dirs of main.
target_dirs(t) == IF t = "mac" THEN "rust/target-mac" ELSE "rust/target-wasm"

\* mac_env / wasm_env of main: a copy of base_env with the target's output directory.
TargetEnv(base, t) == Put(base, "CARGO_TARGET_DIR", target_dirs(t))

\* The debug-profile overlay of build_wasm.
DevProfileOverlay ==
    [ CARGO_PROFILE_DEV_DEBUG |-> "false",
      CARGO_PROFILE_DEV_OPT_LEVEL |-> "s",
      CARGO_PROFILE_DEV_STRIP |-> "debuginfo",
      CARGO_PROFILE_DEV_PANIC |-> "abort",
      CARGO_PROFILE_DEV_LTO |-> "thin",
      CARGO_PROFILE_DEV_CODEGEN_UNITS |-> "1",
      CARGO_PROFILE_DEV_INCREMENTAL |-> "false" ]

\* The names under which the program holds an environment mapping.
EnvNames == {"os.environ", "base_env", "mac_env", "wasm_env", "debug_env"}

\* mac_env / wasm_env, the name of a target's mapping in main.
EnvName(t) == IF t = "mac" THEN "mac_env" ELSE "wasm_env"

\* A binding that hands on the mapping object itself instead of a copy.
dict_copy_Alias(src, name) == src

\* dict.copy(): the object the name `name` is bound to after
\* `name = src.copy()`, a new mapping object (called after the name), where
\* src is the object copied.
dict_copy(src, name) == name

\* A write through the name n, which leaves the mapping with content v, as the
\* name m sees it under the bindings o: m sees v when it is bound to the same
\* object as n, and what it saw before (old) otherwise.
Seen(m, n, v, o, old) == IF o[m] = o[n] THEN v ELSE old

\* The environment build_mac / build_wasm hand to the step of profile p: the
\* debug step of build_wasm gets debug_env (d), every other step env (e).
StepEnv(e, d, t, p) ==
    IF t = "wasm" /\ p = "debug" THEN d ELSE e

\* ------------------------------------------------------------------------
\* Artifacts

\* copy_native_artifacts: the copies in the order of the code, each a record
\* of source and destination.
NativeCopies ==
    << [src |-> <<"rust/target-mac", "debug", "libgodo.dylib">>,   dest |-> <<"debug", "libgodo.dylib">>],
       [src |-> <<"rust/target-mac", "release", "libgodo.dylib">>, dest |-> <<"release", "libgodo.dylib">>],
       [src |-> <<"rust/target-mac", "debug", "libgodo.so">>,      dest |-> <<"debug", "libgodo.so">>],
       [src |-> <<"rust/target-mac", "release", "libgodo.so">>,    dest |-> <<"release", "libgodo.so">>],
       [src |-> <<"rust/target-mac", "debug", "godo.dll">>,        dest |-> <<"debug", "godo.dll">>],
       [src |-> <<"rust/target-mac", "release", "godo.dll">>,      dest |-> <<"release", "godo.dll">> ] >>

\* A copy_wasm_artifacts that deploys under the name of the host library.
WasmCopies_AsHostLibrary ==
    << [src |-> <<"rust/target-wasm", "dev-wasm", "godo.wasm">>, dest |-> <<"debug", "libgodo.dylib">>],
       [src |-> <<"rust/target-wasm", "debug", "godo.wasm">>,    dest |-> <<"debug", "libgodo.dylib">>],
       [src |-> <<"rust/target-wasm", "release", "godo.wasm">>,  dest |-> <<"release", "libgodo.dylib">> ] >>

\* copy_wasm_artifacts: the two debug candidates, then the release artifact.
WasmCopies ==
    << [src |-> <<"rust/target-wasm", "dev-wasm", "godo.wasm">>, dest |-> <<"debug", "godo.wasm">>],
       [src |-> <<"rust/target-wasm", "debug", "godo.wasm">>,    dest |-> <<"debug", "godo.wasm">>],
       [src |-> <<"rust/target-wasm", "release", "godo.wasm">>,  dest |-> <<"release", "godo.wasm">> ] >>

Copies(t) == IF t = "mac" THEN NativeCopies ELSE WasmCopies

\* The destinations a target's deployment can write.
Dests(t) == { Copies(t)[i].dest : i \in 1..Len(Copies(t)) }

\* The build output trees at the time of the copies: the sets of source files
\* that exist.
Trees(t) ==
    IF t = "mac"
    THEN { {},
           {NativeCopies[1].src, NativeCopies[2].src, NativeCopies[6].src} }
    ELSE { {},
           {WasmCopies[2].src},
           {WasmCopies[1].src, WasmCopies[2].src, WasmCopies[3].src} }

\* The sources of the copies.
Sources(t) == { Copies(t)[i].src : i \in 1..Len(Copies(t)) }

\* The content of a file under plugin/bin: of one that is not there, of one
\* that an earlier run left; a deployed file's content is named by the path
\* of the build output it was copied from.
Absent == <<"absent">>
Old == <<"old">>

\* dest.parent of a destination under plugin/bin.
Parent(dest) == dest[1]
PluginDirs == {"debug", "release"}

\* Path.mkdir(parents=True, exist_ok=True): the directory exists afterwards,
\* whether it did or not.
mkdir(ds, d) == ds \cup {d}

\* A create_plugin_structure that makes the debug directory only.
create_plugin_structure_DebugOnly(ds) == mkdir(ds, "debug")

\* create_plugin_structure: the directories that exist after it.
create_plugin_structure(ds) == mkdir(mkdir(ds, "debug"), "release")

\* A copy_artifact that does not look whether src exists.
copy_artifact_Unchecked(src, tree) == TRUE

\* copy_artifact(src, dest): whether it copies, namely when src exists.
copy_artifact(src, tree) == src \in tree

\* A copy that leaves a destination that exists as it is.
shutil_copy2_KeepExisting(files, src, dest) ==
    IF files[dest] = Absent THEN [files EXCEPT ![dest] = src] ELSE files

\* shutil.copy2(src, dest) on the files under plugin/bin: dest holds the
\* content of src afterwards, whatever it held.
shutil_copy2(files, src, dest) == [files EXCEPT ![dest] = src]

\* copy_artifact(c.src, c.dest) that copies: the files and directories under
\* plugin/bin after it; raised = shutil.copy2 raised OSError, after the mkdir.
CopyOne(fs, c, raised) ==
    [ files |-> IF raised THEN fs.files ELSE shutil_copy2(fs.files, c.src, c.dest),
      dirs |-> mkdir(fs.dirs, Parent(c.dest)) ]

\* A loop over the wasm debug candidates that tries them all.
NextCopy_NoBreak(t, i, copied) == i + 1

\* The index of the copy call that follows call i of target t: the loop over
\* the wasm debug candidates breaks after the first that was copied.
NextCopy(t, i, copied) == IF t = "wasm" /\ i = 1 /\ copied THEN 3 ELSE i + 1

\* copy_native_artifacts / copy_wasm_artifacts from call i on: the indices of
\* the calls that copy, in order.
RECURSIVE Performed(_, _, _)
Performed(t, tree, i) ==
    IF i > Len(Copies(t)) THEN <<>>
    ELSE LET copied == copy_artifact(Copies(t)[i].src, tree)
         IN (IF copied THEN <<i>> ELSE <<>>) \o Performed(t, tree, NextCopy(t, i, copied))

\* The files under plugin/bin after the first n of the copies `done`.
RECURSIVE Deployed(_, _, _, _)
Deployed(fs, t, done, n) ==
    IF n = 0 THEN fs
    ELSE CopyOne(Deployed(fs, t, done, n - 1), Copies(t)[done[n]], FALSE)

\* The copy_artifact calls of copy_native_artifacts / copy_wasm_artifacts from
\* call i on, each with what it returned; call `stop` raises, which ends the
\* function (stop = 0: none raises).
RECURSIVE Calls(_, _, _, _)
Calls(t, tree, i, stop) ==
    IF i > Len(Copies(t)) THEN <<>>
    ELSE LET c == Copies(t)[i]
             copied == copy_artifact(c.src, tree)
         IN IF i = stop
            THEN << [src |-> c.src, dest |-> c.dest, result |-> "raised"] >>
            ELSE << [src |-> c.src, dest |-> c.dest,
                     result |-> IF copied THEN "copied" ELSE "not copied"] >>
                 \o Calls(t, tree, NextCopy(t, i, copied), stop)

\* ------------------------------------------------------------------------
\* Errors

NoError == [type |-> "None"]

\* SyncError of run_command, for a nonzero return code.
ExitError(t, p, code) == [type |-> "SyncError", step |-> <<t, p>>, cause |-> "exit", code |-> code]

\* A run_command that reports a missing executable as the shell does, by
\* exit code 127.
NotFoundError_AsExitCode(t, p) == ExitError(t, p, 127)

\* SyncError of run_command, for FileNotFoundError of Popen.
NotFoundError(t, p) == [type |-> "SyncError", step |-> <<t, p>>, cause |-> "command not found", command |-> "cargo"]

\* An OSError of the filesystem (shutil.copy2, mkdir).
OSErrorOf(t) == [type |-> "OSError", target |-> t]

\* ------------------------------------------------------------------------
\* State

VARIABLES
    args,          \* the parsed command line
    targets,       \* the requested targets
    base_env,      \* base_env of main
    env,           \* mac_env and wasm_env of main, NoEnv before they are made
    run_wasm_sync, \* run_wasm_sync of main
    threads,       \* the list `threads` of main: the worker threads started
    pc,            \* where each thread is
    cur,           \* the target whose pipeline a thread is running
    prof,          \* the profile of the build step a thread is running
    nlines,        \* the output lines a thread has read from its current process
    exc,           \* the exception propagating in a thread
    step,          \* per build step: status, launches, environment, launching thread
    pipe,          \* per target: the state of its pipeline
    result,        \* the worker's shared result slot, thread.result
    slotWrites,    \* the threads that wrote the slot, in order
    slotReads,     \* per read of the slot: whether the worker had been joined
    joined,        \* thread.join() has returned
    exitCode,      \* the exit code of the process, NoExit while it runs
    plugin,        \* the content of each file under plugin/bin
    wrote,         \* the writes to plugin/bin in this run: <<thread, target, dest>>
    dirs,          \* plugin/bin/debug and plugin/bin/release exist
    terminal,      \* what was printed to the terminal about the builds
    wasmLog,       \* what this run appended to rust/logs/wasm_build.log
    logOpen,       \* a thread holds an open handle on the wasm log
    godot,         \* the editor process
    relaunched,    \* this run relaunched the editor
    liveLog,       \* rust/logs.txt, the editor's live log
    archive,       \* rust/logs_archive.txt
    obj,           \* per name of an environment: the mapping object it is bound to
    debug_env,     \* debug_env of build_wasm, NoEnv before it is made
    which_emcc,    \* what shutil.which("emcc") returned to build_wasm
    uncaught,      \* the function whose exception left main uncaught
    archiveOps,    \* the file operations of the last archive_godot_logs call, in order
    built,         \* the build outputs as the copies found them: the content of each
    copyCalls,     \* per thread: the copy_artifact calls it made, in order
    which_cache,   \* whether configure_cache looked for the compiler caches, and
                   \* which of them were on PATH then
    os_environ     \* os.environ, the environment of the process

vars == << args, targets, base_env, env, run_wasm_sync, threads, pc, cur, prof, nlines,
           exc, step, pipe, result, slotWrites, slotReads, joined, exitCode,
           plugin, wrote, dirs, terminal, wasmLog, logOpen, godot, relaunched,
           liveLog, archive, obj, debug_env, which_emcc, uncaught, archiveOps,
           built, copyCalls, which_cache, os_environ >>

NoEnv == [NONE |-> "none"]
NoArgs == [NONE |-> "none"]
NoExit == -1

\* The command lines: every combination of the flags.
ArgSets ==
    [ mac : BOOLEAN, wasm : BOOLEAN, no_background_wasm : BOOLEAN,
      cache : BOOLEAN, skip_godot_restart : BOOLEAN ]

\* The files under plugin/bin before the run: an earlier run deployed the
\* debug binaries. The directory of a file that exists, exists.
InitialPlugin ==
    [ d \in Dests("mac") \cup Dests("wasm") |-> IF d[1] = "debug" THEN Old ELSE Absent ]

\* A file: whether it exists, and its lines.
File(lines) == [exists |-> TRUE, lines |-> lines]
NoFile == [exists |-> FALSE, lines |-> <<>>]

\* The editor's live log and the archive before the run.
InitialLiveLogs == { File(<<"godot output">>) }
InitialArchive == File(<<"----- Archived on -----", "older output", "">>)

IdleStep == [status |-> "idle", launches |-> 0, env |-> NoEnv, by |-> "nobody", code |-> NoExit]

\* The state when sync.py starts in one of the environments envs, but for the
\* build outputs.
InitFrom(envs) ==
    /\ args = NoArgs
    /\ targets = {}
    /\ base_env = NoEnv
    /\ env = [t \in Targets |-> NoEnv]
    /\ run_wasm_sync = FALSE
    /\ threads = <<>>
    /\ pc = [th \in Threads |-> IF th = "main" THEN "parse_args" ELSE "unborn"]
    /\ cur = [th \in Threads |-> "none"]
    /\ prof = [th \in Threads |-> "debug"]
    /\ nlines = [th \in Threads |-> 0]
    /\ exc = [th \in Threads |-> NoError]
    /\ step = [s \in Steps |-> IdleStep]
    /\ pipe = [t \in Targets |-> "idle"]
    /\ result = [error |-> NoError]
    /\ slotWrites = <<>>
    /\ slotReads = {}
    /\ joined = FALSE
    /\ exitCode = NoExit
    /\ plugin = InitialPlugin
    /\ wrote = {}
    /\ dirs \in { {"debug"}, PluginDirs }
    /\ terminal = {}
    /\ wasmLog = <<>>
    /\ logOpen = [th \in Threads |-> FALSE]
    /\ godot \in {"running", "stopped"}
    /\ relaunched = FALSE
    /\ liveLog \in InitialLiveLogs
    /\ archive = InitialArchive
    /\ obj = [n \in EnvNames |-> IF n = "os.environ" THEN n ELSE "none"]
    /\ debug_env = NoEnv
    /\ which_emcc = "not asked"
    /\ uncaught = "none"
    /\ archiveOps = <<>>
    /\ copyCalls = [th \in Threads |-> <<>>]
    /\ which_cache = [asked |-> FALSE, found |-> {}]
    /\ os_environ \in envs

InitRun == InitFrom(AmbientEnvs)

Init ==
    /\ InitRun
    /\ built = {}

\* print(...): who printed, about which pipeline, what (a tuple of strings).
Say(th, about, text) == terminal \cup {[by |-> th, about |-> about, text |-> text]}

Goto(th, where) == [pc EXCEPT ![th] = where]

\* The worker is a daemon thread: when the process exits it is stopped
\* wherever it is.
WorkerLive == pc["worker"] \notin {"unborn", "finished", "killed"}

\* sys.exit(code), or the end of main: the interpreter shuts down and does
\* not wait for daemon threads.
ProcessExit(where, code) ==
    /\ pc' = [pc EXCEPT !["main"] = where,
                        !["worker"] = IF WorkerLive THEN "killed" ELSE @]
    /\ exitCode' = code

\* ------------------------------------------------------------------------
\* main, up to the pipelines

\* A target selection without the default: the targets named and no others.
Requested_OnlyNamed(a) ==
    {t \in Targets : (t = "mac" /\ a.mac) \/ (t = "wasm" /\ a.wasm)}

\* A target selection that always takes both targets.
Requested_Both(a) == {"mac", "wasm"}

\* The target set main derives from the flags: the targets named, both when
\* none is named.
Requested(a) ==
    IF ~a.mac /\ ~a.wasm THEN {"mac", "wasm"}
    ELSE {t \in Targets : (t = "mac" /\ a.mac) \/ (t = "wasm" /\ a.wasm)}

\* args = parser.parse_args(); the target set.
ParseArgs ==
    /\ pc["main"] = "parse_args"
    /\ \E a \in ArgSets :
        /\ args' = a
        /\ targets' = Requested(a)
    /\ pc' = Goto("main", "resolve_env")
    /\ UNCHANGED << base_env, env, run_wasm_sync, threads, cur, prof, nlines, exc,
                    step, pipe, result, slotWrites, slotReads, joined, exitCode, plugin,
                    wrote, dirs, terminal, wasmLog, logOpen, godot, relaunched,
                    liveLog, archive >>
    /\ UNCHANGED << obj, debug_env, which_emcc, uncaught, archiveOps, built, copyCalls, which_cache, os_environ >>

\* base_env = os.environ.copy(), the search path, the shell environment.
ResolveEnv ==
    /\ pc["main"] = "resolve_env"
    /\ \E exists \in BOOLEAN, shell \in ShellEnvs :
        LET o == [obj EXCEPT !["base_env"] = dict_copy(obj["os.environ"], "base_env")]
            v == MergeShell(PrependRustup(os_environ, exists), shell)
        IN /\ obj' = o
           /\ base_env' = v
           /\ os_environ' = Seen("os.environ", "base_env", v, o, os_environ)
    /\ pc' = Goto("main", "configure_cache")
    /\ UNCHANGED << args, targets, env, run_wasm_sync, threads, cur, prof, nlines, 
                    exc, step, pipe, result, slotWrites, slotReads, joined, exitCode, plugin,
                    wrote, dirs, terminal, wasmLog, logOpen, godot, relaunched,
                    liveLog, archive >>
    /\ UNCHANGED << debug_env, which_emcc, uncaught, archiveOps, built, copyCalls, which_cache >>

\* configure_cache(base_env, enable=args.cache)
ConfigureCache ==
    /\ pc["main"] = "configure_cache"
    /\ \E found \in SUBSET CacheTools :
        /\ args.cache \/ found = {}
        /\ base_env' = configure_cache(base_env, args.cache, found)
        /\ os_environ' = Seen("os.environ", "base_env", base_env', obj, os_environ)
        /\ which_cache' = [asked |-> args.cache, found |-> found]
        /\ terminal' = Say("main", "main",
                           IF ~args.cache THEN <<"cache disabled">>
                           ELSE IF found = {} THEN <<"no cache found">>
                           ELSE IF CacheWarmUp(args.cache, found) THEN <<"cache sccache", "server started">>
                           ELSE <<"cache ccache">>)
    /\ pc' = Goto("main", "terminate_godot")
    /\ UNCHANGED << args, targets, env, run_wasm_sync, threads, cur, prof, nlines, 
                    exc, step, pipe, result, slotWrites, slotReads, joined, exitCode, plugin,
                    wrote, dirs, wasmLog, logOpen, godot, relaunched,
                    liveLog, archive >>
    /\ UNCHANGED << obj, debug_env, which_emcc, uncaught, archiveOps, built, copyCalls >>

\* What terminate_godot found and printed.
TerminateOutcomes == {"terminated", "none", "no pkill"}

TerminateMessage(outcome) == [by |-> "main", about |-> "main", text |-> <<"godot", outcome>>]

\* A pkill that reports success and kills nothing.
terminate_godot_Spared(outcome, editor) == editor

\* The editor after pkill -9 Godot: killed when pkill returned 0.
terminate_godot(outcome, editor) == IF outcome = "terminated" THEN "stopped" ELSE editor

\* terminate_godot(): pkill -9 Godot returns 0 when it signalled a process;
\* otherwise, or when pkill is missing, nothing changes.  Each outcome is
\* printed.
TerminateGodot ==
    /\ pc["main"] = "terminate_godot"
    /\ \E outcome \in TerminateOutcomes :
        /\ outcome = "terminated" => godot = "running"
        /\ godot' = terminate_godot(outcome, godot)
        /\ terminal' = terminal \cup {TerminateMessage(outcome)}
    /\ pc' = Goto("main", "create_plugin_structure")
    /\ UNCHANGED << args, targets, base_env, env, run_wasm_sync, threads, cur, prof, nlines,
                    exc, step, pipe, result, slotWrites, slotReads, joined, exitCode,
                    plugin, wrote, dirs, wasmLog, logOpen, relaunched, liveLog,
                    archive >>
    /\ UNCHANGED << obj, debug_env, which_emcc, uncaught, archiveOps, built, copyCalls, which_cache, os_environ >>

\* create_plugin_structure(plugin_dir)
CreatePluginStructure ==
    /\ pc["main"] = "create_plugin_structure"
    /\ dirs' = create_plugin_structure(dirs)
    /\ pc' = Goto("main", "wasm_setup")
    /\ UNCHANGED << args, targets, base_env, env, run_wasm_sync, threads, cur, prof, nlines,
                    exc, step, pipe, result, slotWrites, slotReads, joined, exitCode,
                    plugin, wrote, terminal, wasmLog, logOpen, godot, relaunched,
                    liveLog, archive >>
    /\ UNCHANGED << obj, debug_env, which_emcc, uncaught, archiveOps, built, copyCalls, which_cache, os_environ >>

\* A main that ignores --no-background-wasm.
Background_IgnoreFlag(ts, a) == "wasm" \in ts /\ "mac" \in ts

\* The condition of main under which the wasm pipeline gets a worker thread.
Background(ts, a) == "wasm" \in ts /\ "mac" \in ts /\ ~a.no_background_wasm

\* `if "wasm" in targets: ...`: wasm_env, then run_wasm_background or
\* run_wasm_sync = True.  thread.start() puts the worker at build_wasm.
WasmSetup ==
    /\ pc["main"] = "wasm_setup"
    /\ IF "wasm" \in targets
       THEN /\ LET o == [obj EXCEPT !["wasm_env"] = dict_copy(obj["base_env"], "wasm_env")]
                    v == TargetEnv(base_env, "wasm")
                IN /\ obj' = o
                   /\ base_env' = Seen("base_env", "wasm_env", v, o, base_env)
                   /\ os_environ' = Seen("os.environ", "wasm_env", v, o, os_environ)
                   /\ env' = [t \in Targets |-> Seen(EnvName(t), "wasm_env", v, o, env[t])]
            /\ IF Background(targets, args)
               THEN /\ threads' = Append(threads, "worker")
                    /\ pc' = [pc EXCEPT !["main"] = "mac_setup", !["worker"] = "build_wasm"]
                    /\ cur' = [cur EXCEPT !["worker"] = "wasm"]
                    /\ terminal' = Say("main", "main", <<"starting wasm in the background">>)
                    /\ UNCHANGED run_wasm_sync
               ELSE /\ run_wasm_sync' = TRUE
                    /\ pc' = Goto("main", "mac_setup")
                    /\ UNCHANGED << threads, cur, terminal >>
       ELSE /\ terminal' = Say("main", "main", <<"skipping wasm">>)
            /\ pc' = Goto("main", "mac_setup")
            /\ UNCHANGED << base_env, env, obj, threads, cur, run_wasm_sync, os_environ >>
    /\ UNCHANGED << args, targets, prof, nlines, exc, step, pipe, result,
                    slotWrites, slotReads, joined, exitCode, plugin, wrote, dirs, wasmLog,
                    logOpen, godot, relaunched,
                    liveLog, archive >>
    /\ UNCHANGED << debug_env, which_emcc, uncaught, archiveOps, built, copyCalls, which_cache >>

\* `if "mac" in targets: mac_env ...; build_mac(...)`, else "Skipping macOS build."
MacSetup ==
    /\ pc["main"] = "mac_setup"
    /\ IF "mac" \in targets
       THEN /\ LET o == [obj EXCEPT !["mac_env"] = dict_copy(obj["base_env"], "mac_env")]
                    v == TargetEnv(base_env, "mac")
                IN /\ obj' = o
                   /\ base_env' = Seen("base_env", "mac_env", v, o, base_env)
                   /\ os_environ' = Seen("os.environ", "mac_env", v, o, os_environ)
                   /\ env' = [t \in Targets |-> Seen(EnvName(t), "mac_env", v, o, env[t])]
                   /\ debug_env' = Seen("debug_env", "mac_env", v, o, debug_env)
            /\ cur' = [cur EXCEPT !["main"] = "mac"]
            /\ prof' = [prof EXCEPT !["main"] = "debug"]
            /\ pipe' = [pipe EXCEPT !["mac"] = "running"]
            /\ pc' = Goto("main", "run_command")
            /\ UNCHANGED terminal
       ELSE /\ terminal' = Say("main", "main", <<"skipping mac">>)
            /\ pc' = Goto("main", "wasm_sync")
            /\ UNCHANGED << base_env, env, obj, debug_env, cur, prof, pipe, os_environ >>
    /\ UNCHANGED << args, targets, run_wasm_sync, threads, nlines, exc,
                    step, result, slotWrites, slotReads, joined, exitCode, plugin, wrote,
                    dirs, wasmLog, logOpen, godot, relaunched,
                    liveLog, archive >>
    /\ UNCHANGED << which_emcc, uncaught, archiveOps, built, copyCalls, which_cache >>

\* ------------------------------------------------------------------------
\* The pipelines: build_mac and build_wasm, run by thread th for target cur[th]

\* quiet and log_file as the callers pass them: build_mac passes neither, the
\* worker passes quiet=True, main passes quiet=False, build_wasm always a log.
Quiet(th, t) == t = "wasm" /\ th = "worker"
HasLog(t) == t = "wasm"

\* A build_wasm that goes on without looking for emcc.
HasEmcc_NotAsked(found) == TRUE

\* `shutil.which("emcc")` as build_wasm tests it.
HasEmcc(found) == found

\* build_wasm, first lines: without emcc the pipeline is skipped; with it,
\* debug_env is made, a copy of env with the debug-profile overlay.
CheckEmcc(th) ==
    /\ pc[th] = "build_wasm"
    /\ \E found \in BOOLEAN :
        /\ which_emcc' = IF found THEN "found" ELSE "absent"
        /\ IF HasEmcc(found)
           THEN /\ LET o == [obj EXCEPT !["debug_env"] = dict_copy(obj["wasm_env"], "debug_env")]
                        v == Update(env["wasm"], DevProfileOverlay)
                    IN /\ obj' = o
                       /\ base_env' = Seen("base_env", "debug_env", v, o, base_env)
                       /\ os_environ' = Seen("os.environ", "debug_env", v, o, os_environ)
                       /\ env' = [t \in Targets |-> Seen(EnvName(t), "debug_env", v, o, env[t])]
                       /\ debug_env' = v
                /\ pipe' = [pipe EXCEPT !["wasm"] = "running"]
                /\ prof' = [prof EXCEPT ![th] = "debug"]
                /\ pc' = Goto(th, "run_command")
                /\ UNCHANGED terminal
           ELSE /\ pipe' = [pipe EXCEPT !["wasm"] = "skipped"]
                /\ terminal' = Say(th, "wasm", <<"emcc not found; skipping">>)
                /\ pc' = Goto(th, "return")
                /\ UNCHANGED << prof, base_env, env, obj, debug_env, os_environ >>
    /\ UNCHANGED << args, targets, run_wasm_sync, threads, cur, nlines,
                    exc, step, result, slotWrites, slotReads, joined, exitCode,
                    plugin, wrote, dirs, wasmLog, logOpen, godot, relaunched,
                    liveLog, archive >>
    /\ UNCHANGED << uncaught, archiveOps, built, copyCalls, which_cache >>

\* A pipeline that starts the failed step again.
AfterFailure_Retry == "run_command"

\* Where a thread goes when run_command raises SyncError: the exception
\* leaves build_mac / build_wasm, nothing catches it there.
AfterFailure == "raised"

\* run_command up to Popen: the description is printed, the log is opened
\* and gets its header, the process is launched.  Popen raises
\* FileNotFoundError (the log is closed, SyncError is raised) or the process
\* runs.
StartStep(th) ==
    /\ pc[th] = "run_command"
    /\ LET t == cur[th]
           p == prof[th]
           e == StepEnv(env[t], debug_env, t, p)
       IN /\ terminal' = Say(th, t, <<"description", p>>)
          /\ wasmLog' = IF HasLog(t) THEN Append(wasmLog, <<"header", p>>) ELSE wasmLog
          /\ \E launch \in {"not found", "running"} :
                IF launch = "not found"
                THEN /\ step' = [step EXCEPT ![<<t, p>>] =
                                    [@ EXCEPT !.status = "not found", !.launches = @ + 1,
                                              !.env = e, !.by = th]]
                     /\ exc' = [exc EXCEPT ![th] = NotFoundError(t, p)]
                     /\ pipe' = [pipe EXCEPT ![t] = "failed"]
                     /\ pc' = Goto(th, AfterFailure)
                     /\ UNCHANGED logOpen
                ELSE /\ step' = [step EXCEPT ![<<t, p>>] =
                                    [@ EXCEPT !.status = launch, !.launches = @ + 1,
                                              !.env = e, !.by = th]]
                     /\ logOpen' = [logOpen EXCEPT ![th] = HasLog(t)]
                     /\ pc' = Goto(th, "stream")
                     /\ UNCHANGED << exc, pipe >>
    /\ nlines' = [nlines EXCEPT ![th] = 0]
    /\ UNCHANGED << args, targets, base_env, env, run_wasm_sync, threads, cur, prof, 
                    result, slotWrites, slotReads, joined, exitCode, plugin, wrote, dirs,
                    godot, relaunched,
                    liveLog, archive >>
    /\ UNCHANGED << obj, debug_env, which_emcc, uncaught, archiveOps, built, copyCalls, which_cache, os_environ >>

\* A runner that keeps out of the log what it keeps off the terminal.
LogLine_UnlessQuiet(log, open, quiet, line) ==
    IF open /\ ~quiet THEN Append(log, line) ELSE log

\* `if log_handle: log_handle.write(line)`
LogLine(log, open, quiet, line) == IF open THEN Append(log, line) ELSE log

\* `for line in process.stdout`: echo unless quiet, append to the log.
ReadLine(th) ==
    /\ pc[th] = "stream"
    /\ nlines[th] < MaxLines
    /\ LET t == cur[th]
           p == prof[th]
       IN /\ terminal' = IF Quiet(th, t) THEN terminal ELSE Say(th, t, <<"line", p, ToString(nlines[th] + 1)>>)
          /\ wasmLog' = LogLine(wasmLog, logOpen[th], Quiet(th, t),
                                <<"line", p, ToString(nlines[th] + 1)>>)
    /\ nlines' = [nlines EXCEPT ![th] = @ + 1]
    /\ UNCHANGED << args, targets, base_env, env, run_wasm_sync, threads, pc, cur, prof,
                    exc, step, pipe, result, slotWrites, slotReads, joined, exitCode,
                    plugin, wrote, dirs, logOpen, godot, relaunched,
                    liveLog, archive >>
    /\ UNCHANGED << obj, debug_env, which_emcc, uncaught, archiveOps, built, copyCalls, which_cache, os_environ >>

\* A pipeline that copies right after its debug build.
AfterStep_CopyAfterDebug(p) == "copy"

\* Where a pipeline goes after the step of profile p returned normally.
AfterStep(p) == IF p = "debug" THEN "run_command" ELSE "copy"

\* A runner that does not look at the return code.
StepFails_Never(code) == FALSE

\* run_command: `if return_code != 0: raise SyncError(...)`
StepFails(code) == code # 0

\* What an external process does in the end: it exits with a return code, or
\* it never exits.
Never == -2
Outcomes == ReturnCodes \cup {Never}

\* The output has ended and process.wait() returns: the log is closed, a
\* nonzero code raises SyncError, code 0 returns to the pipeline.  The wait
\* has no timeout: a process that never exits leaves the thread waiting.
WaitStep(th) ==
    /\ pc[th] = "stream"
    /\ LET t == cur[th]
           p == prof[th]
       IN /\ step[<<t, p>>].status = "running"
          /\ nlines[th] = MaxLines
          /\ \E code \in Outcomes :
              IF code = Never
              THEN /\ step' = [step EXCEPT ![<<t, p>>] = [@ EXCEPT !.status = "hung"]]
                   /\ UNCHANGED << pc, prof, exc, pipe, logOpen >>
              ELSE
                /\ logOpen' = [logOpen EXCEPT ![th] = FALSE]
                /\ step' = [step EXCEPT ![<<t, p>>] =
                               [@ EXCEPT !.status = IF StepFails(code) THEN "failed" ELSE "ok",
                                         !.code = code]]
                /\ IF StepFails(code)
                   THEN /\ exc' = [exc EXCEPT ![th] = ExitError(t, p, code)]
                        /\ pipe' = [pipe EXCEPT ![t] = "failed"]
                        /\ pc' = Goto(th, AfterFailure)
                        /\ UNCHANGED prof
                   ELSE /\ pc' = Goto(th, AfterStep(p))
                        /\ prof' = [prof EXCEPT ![th] = "release"]
                        /\ UNCHANGED << exc, pipe >>
    /\ UNCHANGED << args, targets, base_env, env, run_wasm_sync, threads, cur, nlines,
                    result, slotWrites, slotReads, joined, exitCode, plugin, wrote, dirs,
                    terminal, wasmLog, godot, relaunched,
                    liveLog, archive >>
    /\ UNCHANGED << obj, debug_env, which_emcc, uncaught, archiveOps, built, copyCalls, which_cache, os_environ >>

\* copy_native_artifacts / copy_wasm_artifacts of thread th for target t, on
\* the build outputs `tree`: every copy_artifact call whose source exists
\* makes the parent directory and writes its destination, in the order of the
\* code; shutil may raise OSError in one of these copies (failed = its
\* position among them, 0 for none), which ends the function there.
CopyEffects(th, t, tree, failed) ==
    LET todo == Performed(t, tree, 1)
        n == IF failed = 0 THEN Len(todo) ELSE failed - 1
        fs == Deployed([files |-> plugin, dirs |-> dirs], t, todo, n)
        after == IF failed = 0 THEN fs ELSE CopyOne(fs, Copies(t)[todo[failed]], TRUE)
    IN /\ plugin' = after.files
       /\ dirs' = after.dirs
       /\ wrote' = wrote \cup { <<th, t, Copies(t)[todo[k]].dest>> : k \in 1..n }
       /\ terminal' = terminal \cup
             { [by |-> th, about |-> t, text |-> <<"copied">> \o Copies(t)[todo[k]].dest] :
                  k \in 1..n }
       /\ built' = (built \ Sources(t)) \cup tree
       /\ copyCalls' = [copyCalls EXCEPT ![th] =
             @ \o Calls(t, tree, 1, IF failed = 0 THEN 0 ELSE todo[failed])]

CopyArtifacts(th) ==
    /\ pc[th] = "copy"
    /\ LET t == cur[th]
       IN \E tree \in Trees(t) :
            \E failed \in 0..Len(Performed(t, tree, 1)) :
                /\ CopyEffects(th, t, tree, failed)
                /\ IF failed = 0
                   THEN /\ pc' = Goto(th, "ready")
                        /\ UNCHANGED << exc, pipe >>
                   ELSE /\ exc' = [exc EXCEPT ![th] = OSErrorOf(t)]
                        /\ pipe' = [pipe EXCEPT ![t] = "failed"]
                        /\ pc' = Goto(th, "raised")
    /\ UNCHANGED << args, targets, base_env, env, run_wasm_sync, threads, cur, prof, nlines,
                    step, result, slotWrites, slotReads, joined, exitCode, wasmLog,
                    logOpen, godot, relaunched, liveLog, archive >>
    /\ UNCHANGED << obj, debug_env, which_emcc, uncaught, archiveOps, which_cache, os_environ >>

\* The last line of build_mac / build_wasm.
PipelineReady(th) ==
    /\ pc[th] = "ready"
    /\ terminal' = Say(th, cur[th], <<"ready">>)
    /\ pipe' = [pipe EXCEPT ![cur[th]] = "done"]
    /\ pc' = Goto(th, "return")
    /\ UNCHANGED << args, targets, base_env, env, run_wasm_sync, threads, cur, prof, nlines,
                    exc, step, result, slotWrites, slotReads, joined, exitCode,
                    plugin, wrote, dirs, wasmLog, logOpen, godot, relaunched,
                    liveLog, archive >>
    /\ UNCHANGED << obj, debug_env, which_emcc, uncaught, archiveOps, built, copyCalls, which_cache, os_environ >>

\* ------------------------------------------------------------------------
\* The worker thread of run_wasm_background

\* worker(): build_wasm returned; the thread ends.
WorkerReturn ==
    /\ pc["worker"] = "return"
    /\ pc' = Goto("worker", "finished")
    /\ UNCHANGED << args, targets, base_env, env, run_wasm_sync, threads, cur, prof, nlines,
                    exc, step, pipe, result, slotWrites, slotReads, joined, exitCode,
                    plugin, wrote, dirs, terminal, wasmLog, logOpen, godot, relaunched,
                    liveLog, archive >>
    /\ UNCHANGED << obj, debug_env, which_emcc, uncaught, archiveOps, built, copyCalls, which_cache, os_environ >>

\* A handler for SyncError alone: any other exception leaves the slot empty.
worker_except_SyncErrorOnly(e) == IF e.type = "SyncError" THEN e ELSE NoError

\* `except Exception as exc`: what the handler puts in the slot.  SyncError
\* and OSError are both subclasses of Exception.
worker_except(e) == e

\* worker(): `except Exception as exc: result["error"] = exc`; the thread ends.
WorkerExcept ==
    /\ pc["worker"] = "raised"
    /\ result' = [result EXCEPT !.error = worker_except(exc["worker"])]
    /\ slotWrites' = Append(slotWrites, "worker")
    /\ exc' = [exc EXCEPT !["worker"] = NoError]
    /\ pc' = Goto("worker", "finished")
    /\ UNCHANGED << args, targets, base_env, env, run_wasm_sync, threads, cur, prof, nlines,
                    step, pipe, slotReads, joined, exitCode, plugin, wrote, dirs,
                    terminal, wasmLog, logOpen, godot, relaunched,
                    liveLog, archive >>
    /\ UNCHANGED << obj, debug_env, which_emcc, uncaught, archiveOps, built, copyCalls, which_cache, os_environ >>

\* ------------------------------------------------------------------------
\* main, after a pipeline

\* build_mac or the in-line build_wasm returned to main.
MainReturn ==
    /\ pc["main"] = "return"
    /\ pc' = Goto("main", IF cur["main"] = "mac" THEN "wasm_sync" ELSE "join")
    /\ cur' = [cur EXCEPT !["main"] = "none"]
    /\ UNCHANGED << args, targets, base_env, env, run_wasm_sync, threads, prof, nlines,
                    exc, step, pipe, result, slotWrites, slotReads, joined, exitCode,
                    plugin, wrote, dirs, terminal, wasmLog, logOpen, godot, relaunched,
                    liveLog, archive >>
    /\ UNCHANGED << obj, debug_env, which_emcc, uncaught, archiveOps, built, copyCalls, which_cache, os_environ >>

\* main: `except SyncError as exc: print(...); sys.exit(1)` around build_mac
\* and around the in-line build_wasm; any other exception is not caught and
\* ends the process with a traceback and exit code 1.
MainExcept ==
    /\ pc["main"] = "raised"
    /\ terminal' = Say("main", cur["main"],
                       IF exc["main"].type = "SyncError" THEN <<"build failed">> ELSE <<"traceback">>)
    /\ uncaught' = IF exc["main"].type = "SyncError" THEN uncaught
                   ELSE IF cur["main"] = "mac" THEN "build_mac" ELSE "build_wasm"
    /\ ProcessExit("exited", 1)
    /\ UNCHANGED << args, targets, base_env, env, run_wasm_sync, threads, cur, prof, nlines,
                    exc, step, pipe, result, slotWrites, slotReads, joined, plugin,
                    wrote, dirs, wasmLog, logOpen, godot, relaunched,
                    liveLog, archive >>
    /\ UNCHANGED << obj, debug_env, which_emcc, archiveOps, built, copyCalls, which_cache, os_environ >>

\* `if run_wasm_sync and wasm_env is not None: build_wasm(..., quiet=False, ...)`
WasmSync ==
    /\ pc["main"] = "wasm_sync"
    /\ IF run_wasm_sync /\ env["wasm"] # NoEnv
       THEN /\ cur' = [cur EXCEPT !["main"] = "wasm"]
            /\ pc' = Goto("main", "build_wasm")
       ELSE /\ pc' = Goto("main", "join")
            /\ UNCHANGED cur
    /\ UNCHANGED << args, targets, base_env, env, run_wasm_sync, threads, prof, nlines,
                    exc, step, pipe, result, slotWrites, slotReads, joined, exitCode,
                    plugin, wrote, dirs, terminal, wasmLog, logOpen, godot, relaunched,
                    liveLog, archive >>
    /\ UNCHANGED << obj, debug_env, which_emcc, uncaught, archiveOps, built, copyCalls, which_cache, os_environ >>

\* A main thread that does not wait for the worker.
Joinable_NoWait == TRUE

\* A join that does not return.
Joinable_Never == FALSE

\* thread.join() returns once the worker thread has ended.
Joinable == pc["worker"] = "finished"

\* A check of the slot that never sees an error.
SlotHasError_Never(r) == FALSE

\* `isinstance(result, dict) and result.get("error")`
SlotHasError(r) == r.error # NoError

\* `for thread in threads: thread.join(); ...`: with no thread the loop is
\* empty; otherwise join returns once the worker has ended, the slot is read
\* and a stored error ends the process with exit code 1.
Join ==
    /\ pc["main"] = "join"
    /\ IF threads = <<>>
       THEN /\ pc' = Goto("main", "archive")
            /\ UNCHANGED << joined, slotReads, terminal, exitCode >>
       ELSE /\ Joinable
            /\ joined' = TRUE
            /\ slotReads' = slotReads \cup {[by |-> "main", worker_ended |-> pc["worker"] = "finished"]}
            /\ IF SlotHasError(result)
               THEN /\ terminal' = Say("main", "wasm", <<"background build failed">>)
                    /\ ProcessExit("exited", 1)
               ELSE /\ pc' = Goto("main", "archive")
                    /\ UNCHANGED << terminal, exitCode >>
    /\ UNCHANGED << args, targets, base_env, env, run_wasm_sync, threads, cur, prof, nlines,
                    exc, step, pipe, result, slotWrites, plugin, wrote, dirs,
                    wasmLog, logOpen, godot, relaunched,
                    liveLog, archive >>
    /\ UNCHANGED << obj, debug_env, which_emcc, uncaught, archiveOps, built, copyCalls, which_cache, os_environ >>

\* ------------------------------------------------------------------------
\* Log archive and editor relaunch

\* archive_limit of archive_godot_logs, in lines (100_000 in the code, scaled).
archive_limit == 4

\* A reset that already happens at archive_limit lines.
ArchiveReset_AtLimit(a, oserror) ==
    IF a.exists /\ ~oserror /\ Len(a.lines) >= archive_limit THEN File(<<>>) ELSE a

\* archive_godot_logs, first part: an existing archive of more than
\* archive_limit lines is reset; an OSError while counting is swallowed and
\* leaves it as it is.
ArchiveReset(a, oserror) ==
    IF a.exists /\ ~oserror /\ Len(a.lines) > archive_limit THEN File(<<>>) ELSE a

\* An append that opens the archive for writing instead of appending.
ArchiveAppend_Overwrite(a, log, oserror, written) ==
    IF log.exists /\ Len(log.lines) > 0
    THEN File(<<"----- Archived on -----">> \o log.lines \o <<"">>)
    ELSE a

\* An append that does not look at the size of the live log.
ArchiveAppend_AnySize(a, log, oserror, written) ==
    IF log.exists
    THEN LET full == <<"----- Archived on -----">> \o log.lines \o <<"">>
         IN File(a.lines \o (IF oserror THEN SubSeq(full, 1, written) ELSE full))
    ELSE a

\* archive_godot_logs, second part: a live log that exists and is not empty is
\* appended after a separator line and followed by a newline; an OSError is
\* swallowed after `written` of these lines reached the archive.
ArchiveAppend(a, log, oserror, written) ==
    IF log.exists /\ Len(log.lines) > 0
    THEN LET full == <<"----- Archived on -----">> \o log.lines \o <<"">>
         IN File(a.lines \o (IF oserror THEN SubSeq(full, 1, written) ELSE full))
    ELSE a

\* The file operations of one archive_godot_logs call, in the order of the
\* code: the count of the archive's lines when an OSError cuts it short, the
\* reset of the archive, the append (whole, or cut short by an OSError), the
\* truncation of the live log.
ArchiveOps(a, log, e1, e2, e3) ==
    (IF a.exists /\ e1 THEN <<"count cut short">> ELSE <<>>)
    \o (IF a.exists /\ ~e1 /\ Len(a.lines) > archive_limit THEN <<"reset archive">> ELSE <<>>)
    \o (IF log.exists /\ Len(log.lines) > 0
        THEN (IF e2 THEN <<"append cut short">> ELSE <<"append">>) ELSE <<>>)
    \o (IF e3 THEN <<>> ELSE <<"truncate live log">>)

\* archive_godot_logs(log_file, archive_file), then on to the relaunch; e1, e2
\* and e3 are an OSError in the first try, in the second try and in the final
\* log_file.write_text(""), which is outside every try, so that its OSError
\* leaves main uncaught and ends the process.
ArchiveGodotLogs ==
    /\ pc["main"] = "archive"
    /\ \E e1 \in BOOLEAN, e2 \in BOOLEAN, e3 \in BOOLEAN, written \in 0..(Len(liveLog.lines) + 1) :
        /\ archive' = ArchiveAppend(ArchiveReset(archive, e1), liveLog, e2, written)
        /\ archiveOps' = ArchiveOps(archive, liveLog, e1, e2, e3)
        /\ IF e3
           THEN /\ terminal' = Say("main", "main", <<"traceback">>)
                /\ uncaught' = "archive_godot_logs"
                /\ ProcessExit("exited", 1)
                /\ UNCHANGED liveLog
           ELSE /\ liveLog' = File(<<>>)
                /\ pc' = Goto("main", "restart")
                /\ UNCHANGED << terminal, exitCode, uncaught >>
    /\ UNCHANGED << args, targets, base_env, env, run_wasm_sync, threads, cur, prof, nlines,
                    exc, step, pipe, result, slotWrites, slotReads, joined, plugin,
                    wrote, dirs, wasmLog, logOpen, godot, relaunched >>
    /\ UNCHANGED << obj, debug_env, which_emcc, built, copyCalls, which_cache, os_environ >>

\* A main that relaunches the editor whatever the flag says.
SkipRestart_Never(a) == FALSE

\* `if not args.skip_godot_restart`
SkipRestart(a) == a.skip_godot_restart

\* `if not args.skip_godot_restart: restart_godot(afk_dir, log_file)`: without
\* a godot launcher a warning; otherwise the log is opened for appending and
\* the editor is launched; an exception of Popen is printed and raised again.
RestartGodot ==
    /\ pc["main"] = "restart"
    /\ IF SkipRestart(args)
       THEN /\ pc' = Goto("main", "complete")
            /\ UNCHANGED << terminal, exitCode, godot, relaunched, liveLog, uncaught >>
       ELSE \E outcome \in {"no godot", "launched", "Popen raises"} :
            /\ liveLog' = IF outcome = "no godot" \/ liveLog.exists THEN liveLog ELSE File(<<>>)
            /\ godot' = IF outcome = "launched" THEN "running" ELSE godot
            /\ relaunched' = (outcome = "launched")
            /\ IF outcome = "Popen raises"
               THEN /\ terminal' = Say("main", "main", <<"traceback">>)
                    /\ uncaught' = "restart_godot"
                    /\ ProcessExit("exited", 1)
               ELSE /\ pc' = Goto("main", "complete")
                    /\ UNCHANGED << terminal, exitCode, uncaught >>
    /\ UNCHANGED << args, targets, base_env, env, run_wasm_sync, threads, cur, prof, nlines,
                    exc, step, pipe, result, slotWrites, slotReads, joined, plugin,
                    wrote, dirs, wasmLog, logOpen, archive >>
    /\ UNCHANGED << obj, debug_env, which_emcc, archiveOps, built, copyCalls, which_cache, os_environ >>

\* The last lines of main: "Sync complete!", and the process ends with code 0.
Complete ==
    /\ pc["main"] = "complete"
    /\ terminal' = Say("main", "main", <<"sync complete">>)
    /\ ProcessExit("done", 0)
    /\ UNCHANGED << args, targets, base_env, env, run_wasm_sync, threads, cur, prof, nlines,
                    exc, step, pipe, result, slotWrites, slotReads, joined, plugin,
                    wrote, dirs, wasmLog, logOpen, godot, relaunched, liveLog, archive >>
    /\ UNCHANGED << obj, debug_env, which_emcc, uncaught, archiveOps, built, copyCalls, which_cache, os_environ >>

\* ------------------------------------------------------------------------
\* The program

MainStep ==
    \/ ParseArgs
    \/ ResolveEnv
    \/ ConfigureCache
    \/ TerminateGodot
    \/ CreatePluginStructure
    \/ WasmSetup
    \/ MacSetup
    \/ MainReturn
    \/ MainExcept
    \/ WasmSync
    \/ Join
    \/ ArchiveGodotLogs
    \/ RestartGodot
    \/ Complete

WorkerStep ==
    \/ WorkerReturn
    \/ WorkerExcept

PipelineStep(th) ==
    \/ CheckEmcc(th)
    \/ StartStep(th)
    \/ ReadLine(th)
    \/ WaitStep(th)
    \/ CopyArtifacts(th)
    \/ PipelineReady(th)

Next ==
    \/ MainStep
    \/ WorkerStep
    \/ \E th \in Threads : PipelineStep(th)

Spec == Init /\ [][Next]_vars

\* Both threads are scheduled: a thread that can take a step takes one.
FairSpec == Spec /\ WF_vars(MainStep \/ PipelineStep("main")) /\ WF_vars(WorkerStep \/ PipelineStep("worker"))

\* ------------------------------------------------------------------------
\* The log files over a sequence of runs

\* The lines the editor has written to its live log when a run finds it.
MaxLogLines == 1

\* The archive's length up to which one more run is followed.
MaxArchiveLines == 6

\* What the editor writes, one line at a time.
EditorOutput == {"godot output", "godot error"}

\* os.environ of these runs.
AmbientEnv == CHOOSE e \in AmbientEnvs : TRUE

\* What the variables of a run hold when main calls archive_godot_logs in a
\* run of `sync.py --wasm --no-cache` (with --skip-godot-restart when skip)
\* on a machine without ~/.cargo and without emcc: the in-line wasm pipeline
\* was skipped, nothing was built or copied.
RunAtArchive(skip) ==
    [
      args |-> [mac |-> FALSE, wasm |-> TRUE, no_background_wasm |-> FALSE,
          cache |-> FALSE, skip_godot_restart |-> skip],
      targets |-> {"wasm"},
      base_env |-> AmbientEnv,
      env |-> [t \in Targets |-> IF t = "wasm" THEN TargetEnv(AmbientEnv, "wasm") ELSE NoEnv],
      run_wasm_sync |-> TRUE,
      threads |-> <<>>,
      pc |-> [th \in Threads |-> IF th = "main" THEN "archive" ELSE "unborn"],
      cur |-> [th \in Threads |-> "none"],
      prof |-> [th \in Threads |-> "debug"],
      nlines |-> [th \in Threads |-> 0],
      exc |-> [th \in Threads |-> NoError],
      step |-> [s \in Steps |-> IdleStep],
      pipe |-> [t \in Targets |-> IF t = "wasm" THEN "skipped" ELSE "idle"],
      result |-> [error |-> NoError],
      slotWrites |-> <<>>,
      slotReads |-> {},
      joined |-> FALSE,
      exitCode |-> NoExit,
      plugin |-> InitialPlugin,
      wrote |-> {},
      dirs |-> PluginDirs,
      terminal |-> { [by |-> "main", about |-> "main", text |-> <<"cache disabled">>],
          [by |-> "main", about |-> "main", text |-> <<"skipping mac">>],
          [by |-> "main", about |-> "wasm", text |-> <<"emcc not found; skipping">>] },
      wasmLog |-> <<>>,
      logOpen |-> [th \in Threads |-> FALSE],
      relaunched |-> FALSE,
      obj |-> [n \in EnvNames |->
                  IF n \in {"os.environ", "base_env", "wasm_env"} THEN n ELSE "none"],
      debug_env |-> NoEnv,
      which_emcc |-> "absent",
      uncaught |-> "none",
      archiveOps |-> <<>>,
      built |-> {},
      copyCalls |-> [th \in Threads |-> <<>>],
      which_cache |-> [asked |-> FALSE, found |-> {}],
      os_environ |-> AmbientEnv ]

\* A run has come to its call of archive_godot_logs.
AtArchive(skip) ==
    LET r == RunAtArchive(skip)
    IN /\ args = r.args
       /\ targets = r.targets
       /\ base_env = r.base_env
       /\ env = r.env
       /\ run_wasm_sync = r.run_wasm_sync
       /\ threads = r.threads
       /\ pc = r.pc
       /\ cur = r.cur
       /\ prof = r.prof
       /\ nlines = r.nlines
       /\ exc = r.exc
       /\ step = r.step
       /\ pipe = r.pipe
       /\ result = r.result
       /\ slotWrites = r.slotWrites
       /\ slotReads = r.slotReads
       /\ joined = r.joined
       /\ exitCode = r.exitCode
       /\ plugin = r.plugin
       /\ wrote = r.wrote
       /\ dirs = r.dirs
       /\ \E outcome \in TerminateOutcomes :
            terminal = r.terminal \cup {TerminateMessage(outcome)}
       /\ wasmLog = r.wasmLog
       /\ logOpen = r.logOpen
       /\ relaunched = r.relaunched
       /\ obj = r.obj
       /\ debug_env = r.debug_env
       /\ which_emcc = r.which_emcc
       /\ uncaught = r.uncaught
       /\ archiveOps = r.archiveOps
       /\ built = r.built
       /\ copyCalls = r.copyCalls
       /\ which_cache = r.which_cache
       /\ os_environ = r.os_environ

\* The log files as a first run finds them.
InitArchive ==
    /\ \E skip \in BOOLEAN : AtArchive(skip)
    /\ godot \in {"running", "stopped"}
    /\ TerminateMessage("terminated") \in terminal => godot = "stopped"
    /\ liveLog \in {NoFile} \cup InitialLiveLogs
    /\ archive \in {NoFile, InitialArchive}

\* The editor, while it runs, writes a line to its live log (restart_godot
\* hands it the log as stdout).
EditorLogs ==
    /\ godot = "running"
    /\ liveLog.exists
    /\ Len(liveLog.lines) < MaxLogLines
    /\ \E line \in EditorOutput : liveLog' = File(Append(liveLog.lines, line))
    /\ UNCHANGED << args, targets, base_env, env, run_wasm_sync, threads, pc, cur, prof,
                    nlines, exc, step, pipe, result, slotWrites, slotReads, joined,
                    exitCode, plugin, wrote, dirs, terminal, wasmLog, logOpen, godot,
                    relaunched, archive, obj, debug_env, which_emcc, uncaught, archiveOps,
                    built, copyCalls, which_cache, os_environ >>

\* The process has ended and sync.py is run again, up to its call of
\* archive_godot_logs; terminate_godot stops a running editor, or could not.
NextRun ==
    /\ pc["main"] \in {"done", "exited"}
    /\ Len(archive.lines) <= MaxArchiveLines
    /\ \E skip \in BOOLEAN :
        LET r == RunAtArchive(skip)
        IN /\ args' = r.args
           /\ targets' = r.targets
           /\ base_env' = r.base_env
           /\ env' = r.env
           /\ run_wasm_sync' = r.run_wasm_sync
           /\ threads' = r.threads
           /\ pc' = r.pc
           /\ cur' = r.cur
           /\ prof' = r.prof
           /\ nlines' = r.nlines
           /\ exc' = r.exc
           /\ step' = r.step
           /\ pipe' = r.pipe
           /\ result' = r.result
           /\ slotWrites' = r.slotWrites
           /\ slotReads' = r.slotReads
           /\ joined' = r.joined
           /\ exitCode' = r.exitCode
           /\ plugin' = r.plugin
           /\ wrote' = r.wrote
           /\ dirs' = r.dirs
           /\ \E outcome \in TerminateOutcomes :
                /\ outcome = "terminated" => godot = "running"
                /\ godot' = terminate_godot(outcome, godot)
                /\ terminal' = r.terminal \cup {TerminateMessage(outcome)}
           /\ wasmLog' = r.wasmLog
           /\ logOpen' = r.logOpen
           /\ relaunched' = r.relaunched
           /\ obj' = r.obj
           /\ debug_env' = r.debug_env
           /\ which_emcc' = r.which_emcc
           /\ uncaught' = r.uncaught
           /\ archiveOps' = r.archiveOps
           /\ built' = r.built
           /\ copyCalls' = r.copyCalls
           /\ which_cache' = r.which_cache
           /\ os_environ' = r.os_environ
    /\ UNCHANGED << liveLog, archive >>

NextArchive ==
    \/ ArchiveGodotLogs
    \/ RestartGodot
    \/ Complete
    \/ EditorLogs
    \/ NextRun

ArchiveSpec == InitArchive /\ [][NextArchive]_vars

\* ------------------------------------------------------------------------
\* copy_artifact, copy_native_artifacts and copy_wasm_artifacts called on
\* their own, on every tree of host build outputs and every tree of wasm
\* build outputs

MaxCopyCalls == 2

InitCopy ==
    /\ InitRun
    /\ built \in (SUBSET Sources("mac")) \cup (SUBSET Sources("wasm"))

\* copy_artifact(src, dest) for one of the host artifacts; oserror = shutil
\* raises OSError in the copy.
CallCopyArtifact ==
    /\ Len(copyCalls["main"]) < MaxCopyCalls
    /\ \E i \in 1..Len(NativeCopies), oserror \in BOOLEAN :
         LET c == NativeCopies[i]
             copied == copy_artifact(c.src, built)
             fs == [files |-> plugin, dirs |-> dirs]
             after == IF copied THEN CopyOne(fs, c, oserror) ELSE fs
             returned == IF ~copied THEN "not copied" ELSE IF oserror THEN "raised" ELSE "copied"
         IN /\ oserror => copied
            /\ plugin' = after.files
            /\ dirs' = after.dirs
            /\ wrote' = IF returned = "copied" THEN wrote \cup {<<"main", "mac", c.dest>>} ELSE wrote
            /\ terminal' = IF returned = "copied"
                           THEN Say("main", "mac", <<"copied">> \o c.dest)
                           ELSE terminal
            /\ exc' = [exc EXCEPT !["main"] = IF oserror THEN OSErrorOf("mac") ELSE NoError]
            /\ copyCalls' = [copyCalls EXCEPT !["main"] =
                  Append(@, [src |-> c.src, dest |-> c.dest, result |-> returned])]
    /\ UNCHANGED << args, targets, base_env, env, run_wasm_sync, threads, pc, cur, prof,
                    nlines, step, pipe, result, slotWrites, slotReads, joined, exitCode,
                    wasmLog, logOpen, godot, relaunched, liveLog, archive >>
    /\ UNCHANGED << obj, debug_env, which_emcc, uncaught, archiveOps, built, which_cache, os_environ >>

\* copy_native_artifacts(), up to its last copy.
CallCopyNative ==
    /\ Len(copyCalls["main"]) < MaxCopyCalls
    /\ \E failed \in 0..Len(Performed("mac", built, 1)) :
         /\ CopyEffects("main", "mac", built, failed)
         /\ exc' = [exc EXCEPT !["main"] = IF failed = 0 THEN NoError ELSE OSErrorOf("mac")]
    /\ UNCHANGED << args, targets, base_env, env, run_wasm_sync, threads, pc, cur, prof,
                    nlines, step, pipe, result, slotWrites, slotReads, joined, exitCode,
                    wasmLog, logOpen, godot, relaunched, liveLog, archive >>
    /\ UNCHANGED << obj, debug_env, which_emcc, uncaught, archiveOps, which_cache, os_environ >>

\* copy_wasm_artifacts().
CallCopyWasm ==
    /\ Len(copyCalls["main"]) < MaxCopyCalls
    /\ LET tree == built \cap Sources("wasm")
       IN \E failed \in 0..Len(Performed("wasm", tree, 1)) :
            /\ CopyEffects("main", "wasm", tree, failed)
            /\ exc' = [exc EXCEPT !["main"] = IF failed = 0 THEN NoError ELSE OSErrorOf("wasm")]
    /\ UNCHANGED << args, targets, base_env, env, run_wasm_sync, threads, pc, cur, prof,
                    nlines, step, pipe, result, slotWrites, slotReads, joined, exitCode,
                    wasmLog, logOpen, godot, relaunched, liveLog, archive >>
    /\ UNCHANGED << obj, debug_env, which_emcc, uncaught, archiveOps, which_cache, os_environ >>

NextCopyCall ==
    \/ CallCopyArtifact
    \/ CallCopyNative
    \/ CallCopyWasm

CopySpec == InitCopy /\ [][NextCopyCall]_vars

\* ------------------------------------------------------------------------
\* The search-path step of main on its own

\* The longest PATH a run starts with, in entries.
MaxPath == 3

\* PATH entries: an empty entry comes from a doubled or trailing separator.
PathAlphabet == {rustup_bin, "/usr/bin", ""}

RECURSIVE Paths(_)
Paths(n) ==
    IF n = 0 THEN { <<>> }
    ELSE Paths(n - 1) \cup { Append(p, x) : p \in { q \in Paths(n - 1) : Len(q) = n - 1 }, x \in PathAlphabet }

\* os.environ as a run may find it: without PATH, or with one of these.
PathEnvs ==
    { [CARGO_TARGET_DIR |-> "rust/target-mac"] }
        \cup { [PATH |-> p, CARGO_TARGET_DIR |-> "rust/target-mac"] : p \in Paths(MaxPath) }

InitPath ==
    /\ InitFrom(PathEnvs)
    /\ built = {}

\* Lines 390-394 in a run: base_env is the copy of os.environ with the
\* directory prepended; exists = ~/.cargo/bin is there.
ResolvePath ==
    /\ pc["main"] = "resolve_env"
    /\ \E exists \in BOOLEAN :
        /\ obj' = [obj EXCEPT !["base_env"] = dict_copy(obj["os.environ"], "base_env")]
        /\ base_env' = PrependRustup(os_environ, exists)
    /\ pc' = Goto("main", "configure_cache")
    /\ UNCHANGED << args, targets, env, run_wasm_sync, threads, cur, prof, nlines,
                    exc, step, pipe, result, slotWrites, slotReads, joined, exitCode, plugin,
                    wrote, dirs, terminal, wasmLog, logOpen, godot, relaunched,
                    liveLog, archive >>
    /\ UNCHANGED << debug_env, which_emcc, uncaught, archiveOps, built, copyCalls,
                    which_cache, os_environ >>

\* Lines 390-394 in a run that is started, on the same machine, from an
\* environment these lines have resolved before: os.environ is that
\* environment.
ResolveResolved ==
    /\ pc["main"] = "resolve_env"
    /\ Len(PathEntries(os_environ)) <= MaxPath
    /\ \E exists \in BOOLEAN :
        /\ os_environ' = PrependRustup(os_environ, exists)
        /\ obj' = [obj EXCEPT !["base_env"] = dict_copy(obj["os.environ"], "base_env")]
        /\ base_env' = PrependRustup(os_environ', exists)
    /\ pc' = Goto("main", "configure_cache")
    /\ UNCHANGED << args, targets, env, run_wasm_sync, threads, cur, prof, nlines,
                    exc, step, pipe, result, slotWrites, slotReads, joined, exitCode, plugin,
                    wrote, dirs, terminal, wasmLog, logOpen, godot, relaunched,
                    liveLog, archive >>
    /\ UNCHANGED << debug_env, which_emcc, uncaught, archiveOps, built, copyCalls,
                    which_cache >>

NextPath ==
    \/ ParseArgs
    \/ ResolvePath
    \/ ResolveResolved

PathSpec == InitPath /\ [][NextPath]_vars

\* ------------------------------------------------------------------------
\* Properties

Exited == exitCode # NoExit
Launched(s) == step[s].launches > 0
InFlight(s) == step[s].status \in {"running", "hung"}
BuiltOk(t) == \A p \in Profiles : step[<<t, p>>].code = 0
SourceTree(t) == IF t = "mac" THEN "rust/target-mac" ELSE "rust/target-wasm"

\* C1: a target's artifact is copied into plugin/bin only after both of that
\* target's build steps have exited with code 0 in this run, whichever thread
\* runs the pipeline.
C1_DeployOnlyAfterBothBuilds ==
    /\ \A w \in wrote : BuiltOk(w[2])
    /\ \A th \in Threads : pc[th] \in {"copy", "ready"} => BuiltOk(cur[th])

\* C1 witness: the worker has copied a wasm artifact and main a host artifact.
C1_Witness ==
    /\ \E w \in wrote : w[1] = "worker" /\ w[2] = "wasm"
    /\ \E w \in wrote : w[1] = "main" /\ w[2] = "mac"

\* C2: the process does not exit while a spawned worker thread is still
\* running its pipeline, whatever the outcome of the host pipeline.
C2_NoExitWhileWorkerRuns ==
    Exited => pc["worker"] \in {"unborn", "finished"}

StepFailedOf(t) ==
    \E p \in Profiles :
        \/ step[<<t, p>>].status = "not found"
        \/ step[<<t, p>>].code \notin {NoExit, 0}

\* C3: a failure of one pipeline's build step aborts only that pipeline: the
\* sibling pipeline is not cut short, so when the process has exited after a
\* step of one pipeline failed, the other pipeline is not left unfinished.
C3_SiblingRunsToItsEnd ==
    \A t, u \in Targets :
        (t # u /\ StepFailedOf(t) /\ Exited) => pipe[u] # "running"

\* C4: when the background wasm pipeline failed and the host pipeline
\* succeeded, the run ends with exit code 1, after the join and with the host
\* artifacts deployed and still in place.
C4_BackgroundFailureAfterHostDeploy ==
    (threads # <<>> /\ result.error # NoError /\ pipe["mac"] = "done" /\ pc["main"] \in {"exited", "done"})
        => /\ exitCode = 1
           /\ joined
           /\ \A w \in wrote : w[2] = "mac" => plugin[w[3]][1] = SourceTree("mac")
           /\ ~relaunched

\* C4 witness: such a run, with a host artifact deployed.
C4_Witness ==
    /\ threads # <<>> /\ result.error # NoError /\ pipe["mac"] = "done"
    /\ exitCode = 1
    /\ \E w \in wrote : w[2] = "mac"

HostStepFailed == StepFailedOf("mac")

\* C5: once a build step of the host pipeline has failed, main only handles
\* the failure and exits with code 1, and no host artifact is copied into the
\* plugin directory in that run.
C5_HostFailureDeploysNothing ==
    HostStepFailed
        => /\ pc["main"] \in {"raised", "exited"}
           /\ exitCode \in {NoExit, 1}
           /\ \A w \in wrote : w[2] # "mac"
           /\ \A d \in Dests("mac") : plugin[d] = InitialPlugin[d]

\* C5 witness: the host release step failed after the debug step succeeded,
\* and the process has exited.
C5_Witness ==
    /\ step[<<"mac", "debug">>].code = 0
    /\ step[<<"mac", "release">>].code = 101
    /\ exitCode = 1

PastWasmSetup ==
    pc["main"] \notin {"parse_args", "resolve_env", "configure_cache", "terminate_godot",
                       "create_plugin_structure", "wasm_setup"}

\* C7: a worker thread exists iff both targets are requested and
\* --no-background-wasm is not given; there is at most one; a requested wasm
\* pipeline without a worker runs in-line on main, and the wasm pipeline never
\* runs both in a worker and in-line.
C7_WorkerIffBackground ==
    /\ Len(threads) <= 1
    /\ ~PastWasmSetup => threads = <<>> /\ pc["worker"] = "unborn"
    /\ PastWasmSetup =>
          /\ (threads # <<>>) <=> (targets = {"mac", "wasm"} /\ ~args.no_background_wasm)
          /\ run_wasm_sync <=> ("wasm" \in targets /\ threads = <<>>)
    /\ threads = <<>> => pc["worker"] = "unborn"
    /\ \A p \in Profiles :
          /\ step[<<"wasm", p>>].by = "worker" => threads # <<>>
          /\ step[<<"wasm", p>>].by = "main" => threads = <<>> /\ run_wasm_sync
    /\ cur["main"] = "wasm" => run_wasm_sync
    /\ \A w \in wrote : w[2] = "wasm" => w[1] = (IF threads # <<>> THEN "worker" ELSE "main")
    /\ (pc["main"] = "done" /\ "wasm" \in targets /\ threads = <<>>)
          => pipe["wasm"] \in {"done", "skipped"}

\* C7 witness: both targets with --no-background-wasm, the wasm pipeline has
\* run in-line to its end.
C7_Witness ==
    /\ targets = {"mac", "wasm"}
    /\ args.no_background_wasm
    /\ step[<<"wasm", "release">>].by = "main"
    /\ pipe["wasm"] = "done"
    /\ pc["main"] = "done"

\* C8: in background mode nothing the wasm pipeline produces reaches the
\* terminal.
C8_WorkerSilentOnTerminal ==
    \A m \in terminal : m.by # "worker"

\* C9: a thread waiting on a build process gets past that wait: the runner
\* kills a process that does not exit in time and fails the step.
C9_RunnerStopsWaiting ==
    \A th \in Threads : (pc[th] = "stream") ~> (pc[th] # "stream")

CargoTargetDir(s) == step[s].env["CARGO_TARGET_DIR"]

\* C10: the CARGO_TARGET_DIR of every host build step differs from that of
\* every wasm build step, a target's two steps have the same one, and two
\* build steps in flight at the same time never share one.
C10_OutputDirsDistinct ==
    /\ \A s \in Steps : Launched(s) => "CARGO_TARGET_DIR" \in DOMAIN step[s].env
    /\ \A p, q \in Profiles :
          (Launched(<<"mac", p>>) /\ Launched(<<"wasm", q>>))
              => CargoTargetDir(<<"mac", p>>) # CargoTargetDir(<<"wasm", q>>)
    /\ \A t \in Targets :
          (Launched(<<t, "debug">>) /\ Launched(<<t, "release">>))
              => CargoTargetDir(<<t, "debug">>) = CargoTargetDir(<<t, "release">>)
    /\ \A s1, s2 \in Steps :
          (s1 # s2 /\ InFlight(s1) /\ InFlight(s2)) => CargoTargetDir(s1) # CargoTargetDir(s2)

\* C10 witness: a host step and a wasm step are in flight at the same time,
\* in a run whose ambient environment already names an output directory.
C10_Witness ==
    /\ step[<<"mac", "release">>].status = "running"
    /\ step[<<"wasm", "debug">>].status = "hung"
    /\ "CARGO_PROFILE_DEV_DEBUG" \in DOMAIN base_env

\* What a step of target t must have been given when no write for the other
\* target, and no write of the debug overlay, has reached its mapping.
OwnEnv(t) == Put(base_env, "CARGO_TARGET_DIR", target_dirs(t))

\* Once the Environment Resolver is done, nothing writes the base mapping.
BaseEnvIsLeftAlone ==
    (base_env # NoEnv /\ pc["main"] \notin {"resolve_env", "configure_cache"})
        => base_env' = base_env

\* C11: each target's environment mapping is a private copy.  The base
\* mapping is not written by anything that follows the resolver; mac_env and
\* wasm_env stay the base mapping plus their own output directory, whatever
\* is written for the other target or for the wasm debug step; the host steps
\* and the wasm release step are given exactly that, and only the wasm debug
\* step is given the CARGO_PROFILE_DEV_* overlay on top of it.
C11_EnvironmentsArePrivate ==
    /\ [][BaseEnvIsLeftAlone]_vars
    /\ [](/\ \A t \in Targets : env[t] # NoEnv => env[t] = OwnEnv(t)
          /\ \A p \in Profiles :
                Launched(<<"mac", p>>) => step[<<"mac", p>>].env = OwnEnv("mac")
          /\ Launched(<<"wasm", "release">>) => step[<<"wasm", "release">>].env = OwnEnv("wasm")
          /\ Launched(<<"wasm", "debug">>)
                => step[<<"wasm", "debug">>].env = Update(OwnEnv("wasm"), DevProfileOverlay))

\* C11 witness: the worker has launched the wasm release step after the wasm
\* debug step, main has launched the host release step, and the ambient
\* environment names a debug profile of its own.
C11_Witness ==
    /\ step[<<"wasm", "debug">>].by = "worker"
    /\ Launched(<<"wasm", "release">>)
    /\ Launched(<<"mac", "release">>)
    /\ "CARGO_PROFILE_DEV_DEBUG" \in DOMAIN base_env
    /\ base_env["CARGO_PROFILE_DEV_DEBUG"] # DevProfileOverlay["CARGO_PROFILE_DEV_DEBUG"]

\* C12: the destinations of the host pipeline and those of the wasm pipeline
\* under plugin/bin/debug and plugin/bin/release are disjoint; every write of
\* a pipeline goes to one of its own destinations, so no file is written by
\* both threads or for both targets, in any interleaving.
C12_PipelinesWriteDisjointFiles ==
    /\ Dests("mac") \cap Dests("wasm") = {}
    /\ \A w \in wrote : w[3] \in Dests(w[2])
    /\ \A w1, w2 \in wrote : w1[3] = w2[3] => (w1[1] = w2[1] /\ w1[2] = w2[2])

\* C12 witness: the worker and main have both written into plugin/bin/debug
\* and into plugin/bin/release.
C12_Witness ==
    \A d \in {"debug", "release"} :
        /\ \E w \in wrote : w[1] = "worker" /\ w[3][1] = d
        /\ \E w \in wrote : w[1] = "main" /\ w[3][1] = d

DebugFailed(t) == step[<<t, "debug">>].status \in {"failed", "not found"}

\* C13: in either pipeline the release step is started only after the debug
\* step has exited with code 0; once the debug step has failed (nonzero exit
\* or command not found) the release step is never started and the rest of
\* that pipeline (copies, the closing message) is skipped.
C13_ReleaseOnlyAfterDebugOk ==
    \A t \in Targets :
        /\ Launched(<<t, "release">>) => step[<<t, "debug">>].code = 0
        /\ \A th \in Threads :
              (cur[th] = t /\ prof[th] = "release" /\ pc[th] \in {"run_command", "stream"})
                  => step[<<t, "debug">>].code = 0
        /\ DebugFailed(t) =>
              /\ ~Launched(<<t, "release">>)
              /\ pipe[t] = "failed"
              /\ \A w \in wrote : w[2] # t
              /\ \A d \in Dests(t) : plugin[d] = InitialPlugin[d]
              /\ \A m \in terminal : ~(m.about = t /\ m.text = <<"ready">>)

\* C13 witness: the wasm debug step of the worker found no command, the host
\* debug step exited with a nonzero code, and the process has exited.
C13_Witness ==
    /\ step[<<"wasm", "debug">>].status = "not found"
    /\ step[<<"wasm", "debug">>].by = "worker"
    /\ step[<<"mac", "debug">>].code = 101
    /\ Exited

\* Every requested pipeline ran to its end, or was skipped for want of emcc,
\* and no error is stored in the worker's slot.
AllPipelinesCompleted ==
    /\ \A t \in targets : pipe[t] \in {"done", "skipped"}
    /\ result.error = NoError

\* C14: when the process has exited, its exit code is 0 exactly when every
\* requested pipeline completed without a surfaced failure, and 1 otherwise.
C14_ExitCodeTellsPipelineOutcome ==
    Exited =>
        /\ exitCode \in {0, 1}
        /\ (exitCode = 0) <=> AllPipelinesCompleted

\* C15: when emcc is not on the search path the wasm pipeline is skipped as a
\* whole: no wasm build step is started and nothing is written to the wasm
\* log, no wasm artifact is copied, no error is raised in the thread that ran
\* build_wasm or stored in the worker's slot, and unless something else fails
\* the run ends with exit code 0.
C15_NoEmccSkipsWasm ==
    which_emcc = "absent" =>
        /\ pipe["wasm"] = "skipped"
        /\ \A p \in Profiles : ~Launched(<<"wasm", p>>)
        /\ wasmLog = <<>>
        /\ \A w \in wrote : w[2] # "wasm"
        /\ \A d \in Dests("wasm") : plugin[d] = InitialPlugin[d]
        /\ result.error = NoError
        /\ \A th \in Threads : cur[th] = "wasm" => exc[th] = NoError
        /\ (Exited /\ uncaught = "none" /\ ("mac" \in targets => pipe["mac"] = "done"))
              => exitCode = 0

\* C15 witness: the worker found no emcc, the host pipeline succeeded and the
\* run has ended with exit code 0.
C15_Witness ==
    /\ which_emcc = "absent"
    /\ threads # <<>>
    /\ pipe["mac"] = "done"
    /\ exitCode = 0

\* C16: in a run with --mac and without --wasm no wasm build step is ever
\* started (build_wasm is not even entered), no worker thread is spawned, and
\* neither plugin/bin/debug/godo.wasm nor plugin/bin/release/godo.wasm is
\* written.
C16_HostOnlyLeavesWasmAlone ==
    (args # NoArgs /\ args.mac /\ ~args.wasm) =>
        /\ \A p \in Profiles : ~Launched(<<"wasm", p>>)
        /\ pipe["wasm"] = "idle"
        /\ which_emcc = "not asked"
        /\ wasmLog = <<>>
        /\ threads = <<>>
        /\ pc["worker"] = "unborn"
        /\ \A th \in Threads : cur[th] # "wasm"
        /\ \A w \in wrote : w[2] # "wasm"
        /\ \A d \in Dests("wasm") : plugin[d] = InitialPlugin[d]

\* C16 witness: a host-only run has deployed a host artifact and ended with
\* exit code 0.
C16_Witness ==
    /\ args # NoArgs /\ args.mac /\ ~args.wasm
    /\ \E w \in wrote : w[2] = "mac"
    /\ exitCode = 0

HasResult(s) == step[s].status \in {"ok", "failed", "not found"}

\* A build step that has its result keeps it: it is not launched again and
\* its status and return code do not change.
ResultIsFinal == \A s \in Steps : HasResult(s) => step'[s] = step[s]

\* C17: each build step is launched at most once per run and yields one
\* result; no pipeline runs a step again after it failed.
C17_StepAtMostOnce ==
    /\ [](\A s \in Steps : step[s].launches <= 1)
    /\ [][ResultIsFinal]_vars

\* C17 witness: in a serialized run the host steps succeeded, the wasm release
\* step failed after one launch, and the process has exited.
C17_Witness ==
    /\ step[<<"mac", "release">>].status = "ok"
    /\ step[<<"wasm", "debug">>].status = "ok"
    /\ step[<<"wasm", "release">>].status = "failed"
    /\ step[<<"wasm", "release">>].by = "main"
    /\ \A s \in Steps : step[s].launches = 1
    /\ Exited

\* The advisory side operations whose exception can leave main uncaught.
AdvisoryOperations == {"archive_godot_logs", "restart_godot"}

\* C18: every advisory side operation contains its own failures: no exception
\* of log archiving or of the editor relaunch leaves main uncaught, so that a
\* failure inside them neither aborts the run nor turns the exit code of a run
\* whose build steps all succeeded into 1.
C18_AdvisoryOperationsContainFailures ==
    /\ uncaught \notin AdvisoryOperations
    /\ (archiveOps # <<>> /\ Exited) => exitCode = 0

IsPrefix(s, t) == Len(s) <= Len(t) /\ SubSeq(t, 1, Len(s)) = s

\* What a call has to add to the archive for the live log it finds.
Block(log) ==
    IF log.exists /\ Len(log.lines) > 0
    THEN <<"----- Archived on -----">> \o log.lines \o <<"">>
    ELSE <<>>

\* The step in which main runs archive_godot_logs.
ArchiveCall == pc["main"] = "archive" /\ pc'["main"] # "archive"

\* A call in which no filesystem error was swallowed: the archive is left
\* truncated and then holding the whole of the live log it found when it had
\* more than archive_limit lines, with one reset that comes before the append;
\* otherwise it is not reset and grows by the live log.
ResetThenAppend ==
    (/\ ArchiveCall
     /\ ~InSeq("count cut short", archiveOps')
     /\ ~InSeq("append cut short", archiveOps'))
        => IF archive.exists /\ Len(archive.lines) > archive_limit
           THEN /\ Cardinality({i \in 1..Len(archiveOps') : archiveOps'[i] = "reset archive"}) = 1
                /\ \A i, j \in 1..Len(archiveOps') :
                      (archiveOps'[i] = "reset archive" /\ archiveOps'[j] = "append") => i < j
                /\ archive'.lines = Block(liveLog)
           ELSE /\ ~InSeq("reset archive", archiveOps')
                /\ archive'.lines = archive.lines \o Block(liveLog)

\* C19: when the archive holds more lines than the ceiling at the time
\* archive_godot_logs runs, it is truncated to empty exactly once, before the
\* live log is appended, so that the newly archived content is fully present
\* afterwards; when it holds at most the ceiling, it is not truncated (calls
\* whose file operations succeed).
C19_ResetOnceBeforeAppend == [][ResetThenAppend]_vars

\* C19 witness: a call has reset an archive of more than archive_limit lines
\* and then appended the live log, which is all the archive holds now.
C19_Witness ==
    /\ archiveOps = <<"reset archive", "append", "truncate live log">>
    /\ Len(archive.lines) = 3
    /\ archive.lines[2] \in EditorOutput
    /\ pc["main"] = "restart"

\* A call that does not reset leaves what the archive held as a prefix of
\* what it holds now, and no other step touches the archive.
ArchiveOnlyGrows ==
    /\ (ArchiveCall /\ ~InSeq("reset archive", archiveOps'))
          => /\ IsPrefix(archive.lines, archive'.lines)
             /\ archive.exists => archive'.exists
    /\ ~ArchiveCall => archive' = archive

\* C20: across any sequence of runs, content already in the archive is never
\* removed or altered except by the size-cap reset.
C20_ArchiveIsAppendOnly == [][ArchiveOnlyGrows]_vars

\* C20 witness: two runs in a row have each appended the live log they found
\* to an archive that was absent at first.
C20_Witness ==
    /\ Len(archive.lines) = 6
    /\ archive.lines[1] = "----- Archived on -----"
    /\ archive.lines[2] \in EditorOutput
    /\ archive.lines[4] = "----- Archived on -----"
    /\ archive.lines[5] \in EditorOutput
    /\ archive.lines[5] # archive.lines[2]
    /\ archiveOps = <<"append", "truncate live log">>

\* main has made its call of terminate_godot.
PastTerminate ==
    pc["main"] \notin {"parse_args", "resolve_env", "configure_cache", "terminate_godot"}

\* C21: terminate_godot runs before the first build step of any pipeline
\* starts and before the worker exists; the editor is relaunched only after
\* every requested pipeline has succeeded (or was skipped for want of emcc)
\* and the worker has been joined, and only without --skip-godot-restart; a
\* run that exits with code 1 has not relaunched the editor.
C21_EditorTerminatedFirstRelaunchedLast ==
    /\ ~PastTerminate =>
          /\ \A s \in Steps : ~Launched(s)
          /\ \A t \in Targets : pipe[t] = "idle"
          /\ pc["worker"] = "unborn"
          /\ ~relaunched
    /\ relaunched =>
          /\ \A t \in targets : pipe[t] \in {"done", "skipped"}
          /\ \A s \in Steps : ~InFlight(s)
          /\ threads # <<>> => (joined /\ pc["worker"] = "finished")
          /\ result.error = NoError
          /\ ~args.skip_godot_restart
          /\ godot = "running"
    /\ exitCode = 1 => ~relaunched

\* C21 witness: a run with a worker whose editor was running has terminated
\* it, built both targets, joined the worker and relaunched the editor.
C21_Witness ==
    /\ relaunched
    /\ joined
    /\ pipe["mac"] = "done"
    /\ pipe["wasm"] = "done"
    /\ exitCode = 0

\* ------------------------------------------------------------------------
\* C22, C23: copy_artifact

\* The copy_artifact call of a step that makes exactly one.
OneCopy == Len(copyCalls'["main"]) = Len(copyCalls["main"]) + 1
TheCopy == copyCalls'["main"][Len(copyCalls'["main"])]

\* The earlier call, when there was one.
CopiedBefore ==
    /\ copyCalls["main"] # <<>>
    /\ copyCalls["main"][Len(copyCalls["main"])] = TheCopy

\* C22: copy_artifact is idempotent. A copy of a source that exists, unless
\* the file system refuses it, reports copied, raises nothing and leaves the
\* destination with the content of the source; when the call before it was
\* the same copy, it leaves the files and directories under plugin/bin as
\* that call left them.
C22_CopyArtifactIsIdempotent ==
    [][ (OneCopy /\ TheCopy.src \in built /\ TheCopy.result # "raised")
          => /\ TheCopy.result = "copied"
             /\ exc'["main"] = NoError
             /\ plugin'[TheCopy.dest] = TheCopy.src
             /\ CopiedBefore => (plugin' = plugin /\ dirs' = dirs) ]_vars

\* The same artifact was copied twice over a file an earlier run had left.
C22_Witness ==
    /\ Len(copyCalls["main"]) = 2
    /\ copyCalls["main"][1] = copyCalls["main"][2]
    /\ copyCalls["main"][2].result = "copied"
    /\ copyCalls["main"][2].dest[1] = "debug"
    /\ plugin[copyCalls["main"][2].dest] = copyCalls["main"][2].src
    /\ exc["main"] = NoError

\* The host deployment of a step that makes all six copy_artifact calls, none
\* of them refused by the file system.
HostDeployment ==
    /\ Len(copyCalls'["main"]) = Len(copyCalls["main"]) + Len(NativeCopies)
    /\ TheCopy.result # "raised"

\* C23: a copy_artifact whose source is missing reports not copied, raises
\* nothing and leaves the files and directories under plugin/bin as they
\* were; one whose source exists, unless the file system refuses it, reports
\* copied and replaces whatever the destination held. The host deployment
\* therefore succeeds on every subset of the build outputs, deploying those
\* that exist and leaving the other destinations alone.
C23_MissingSourceIsSkipped ==
    [][ /\ (OneCopy /\ TheCopy.src \notin built)
           => /\ TheCopy.result = "not copied"
              /\ exc'["main"] = NoError
              /\ plugin' = plugin
              /\ dirs' = dirs
        /\ (OneCopy /\ TheCopy.src \in built /\ TheCopy.result # "raised")
           => /\ TheCopy.result = "copied"
              /\ plugin' = [plugin EXCEPT ![TheCopy.dest] = TheCopy.src]
              /\ Parent(TheCopy.dest) \in dirs'
        /\ HostDeployment
           => /\ exc'["main"] = NoError
              /\ \A i \in 1..Len(NativeCopies) :
                    plugin'[NativeCopies[i].dest] =
                        IF NativeCopies[i].src \in built
                        THEN NativeCopies[i].src
                        ELSE plugin[NativeCopies[i].dest] ]_vars

\* A copy of a missing artifact over a file an earlier run had left, then a
\* host deployment that found one of the six artifacts.
C23_Witness ==
    /\ Cardinality(built) = 1
    /\ Len(copyCalls["main"]) = Len(NativeCopies) + 1
    /\ copyCalls["main"][1].result = "not copied"
    /\ plugin[copyCalls["main"][1].dest] = Old
    /\ \E d \in Dests("mac") : plugin[d] \in built
    /\ exc["main"] = NoError

\* ------------------------------------------------------------------------
\* C24: the plugin directories

PastCreate ==
    PastTerminate /\ pc["main"] # "create_plugin_structure"

\* C24: plugin/bin/debug and plugin/bin/release exist before any artifact
\* copy of any pipeline, the worker's included: from create_plugin_structure
\* on, and so whenever a thread is at its copies, has made a copy_artifact
\* call or the worker exists. Creating them when they exist goes on to the
\* next statement of main and changes neither directories nor files.
C24_PluginDirectoriesExistBeforeCopies ==
    /\ [](/\ PastCreate => PluginDirs \subseteq dirs
          /\ \A th \in Threads :
                (pc[th] = "copy" \/ copyCalls[th] # <<>>) => PluginDirs \subseteq dirs
          /\ pc["worker"] # "unborn" => PluginDirs \subseteq dirs
          /\ wrote # {} => PluginDirs \subseteq dirs)
    /\ [][ pc["main"] = "create_plugin_structure"
             => /\ pc'["main"] = "wasm_setup"
                /\ exc' = exc
                /\ plugin' = plugin
                /\ dirs \subseteq dirs'
                /\ PluginDirs \subseteq dirs => dirs' = dirs ]_vars

\* The worker deployed a release artifact.
C24_Witness ==
    /\ \E w \in wrote : w[1] = "worker" /\ w[3][1] = "release"
    /\ PluginDirs \subseteq dirs

\* ------------------------------------------------------------------------
\* C25: the compiler cache

\* print + subprocess.run of configure_cache, as the terminal shows them.
WarmedUp == \E m \in terminal : InSeq("server started", m.text)

\* C25: with caching enabled, RUSTC_WRAPPER is set to the first of sccache,
\* ccache that is on PATH, and the server is started only when that is
\* sccache; when neither is on PATH or caching is disabled, configure_cache
\* leaves the environment as it was and starts nothing. Caching disabled,
\* the tools are not looked for.
C25_FirstCacheToolFoundIsTheWrapper ==
    [][ pc["main"] = "configure_cache"
          => LET asked == which_cache'.asked
                 found == which_cache'.found
             IN /\ asked = args.cache
                /\ (asked /\ "sccache" \in found)
                      => /\ base_env' = Put(base_env, "RUSTC_WRAPPER", "/bin/sccache")
                         /\ WarmedUp'
                /\ (asked /\ "sccache" \notin found /\ "ccache" \in found)
                      => /\ base_env' = Put(base_env, "RUSTC_WRAPPER", "/bin/ccache")
                         /\ ~WarmedUp'
                /\ (~asked \/ found = {})
                      => /\ base_env' = base_env
                         /\ ~WarmedUp' ]_vars

\* Both tools were on PATH and sccache became the wrapper.
C25_Witness ==
    /\ which_cache = [asked |-> TRUE, found |-> CacheTools]
    /\ base_env.RUSTC_WRAPPER = "/bin/sccache"
    /\ WarmedUp

\* ------------------------------------------------------------------------
\* C26: the resolver works on a copy

\* The resolver has run: base_env holds the resolved environment.
Resolved == pc["main"] \notin {"parse_args", "resolve_env", "configure_cache"}

\* C26: the resolver returns a fresh mapping and never mutates the mapping it
\* was given. base_env is bound to a mapping object of its own, not to the
\* environment of the process, and no step of the run, the path prepend, the
\* shell merge and the cache configuration included, changes os.environ.
C26_ResolverLeavesAmbientEnvironmentAlone ==
    /\ [][os_environ' = os_environ]_vars
    /\ [](/\ os_environ \in AmbientEnvs
          /\ base_env # NoEnv => obj["base_env"] # obj["os.environ"])

\* The resolver prepended ~/.cargo/bin, merged the shell's variables and
\* installed a wrapper; the environment of the process shows none of it.
C26_Witness ==
    /\ Resolved
    /\ "RUSTC_WRAPPER" \in DOMAIN base_env
    /\ base_env.PATH # os_environ.PATH
    /\ "RUSTC_WRAPPER" \notin DOMAIN os_environ

\* ------------------------------------------------------------------------
\* C27: the target set

\* C27: the requested target set is never empty: both targets without a
\* flag, the host alone with --mac, wasm alone with --wasm, both with both
\* flags. It is fixed before any build step (nothing is launched, and no
\* pipeline or worker exists, while the command line is unparsed) and does
\* not change during the run.
C27_TargetSetIsFixedAndNeverEmpty ==
    /\ [](/\ args = NoArgs
             => /\ \A s \in Steps : ~Launched(s)
                /\ \A t \in Targets : pipe[t] = "idle"
                /\ pc["worker"] = "unborn"
          /\ args # NoArgs
             => /\ targets # {}
                /\ (~args.mac /\ ~args.wasm) => targets = {"mac", "wasm"}
                /\ (args.mac /\ ~args.wasm) => targets = {"mac"}
                /\ (~args.mac /\ args.wasm) => targets = {"wasm"}
                /\ (args.mac /\ args.wasm) => targets = {"mac", "wasm"}
          /\ \A t \in Targets : pipe[t] # "idle" => t \in targets)
    /\ [][args # NoArgs => (targets' = targets /\ args' = args)]_vars

\* A run without target flags built and deployed both targets.
C27_Witness ==
    /\ args # NoArgs /\ ~args.mac /\ ~args.wasm
    /\ targets = {"mac", "wasm"}
    /\ pipe["mac"] = "done" /\ pipe["wasm"] = "done"
    /\ exitCode = 0

\* ------------------------------------------------------------------------
\* C28: the two failures of a build step

\* The build step s ended its pipeline: the thread that ran it left
\* build_mac / build_wasm by the exception, the pipeline has failed, no later
\* step of it was launched and nothing of it was deployed.
Aborted(s) ==
    /\ pipe[s[1]] = "failed"
    /\ pc[step[s].by] \in {"raised", "exited", "finished", "killed"}
    /\ s[2] = "debug" => ~Launched(<<s[1], "release">>)
    /\ \A w \in wrote : w[2] # s[1]
    /\ \A th \in Threads : \A i \in 1..Len(copyCalls[th]) :
          copyCalls[th][i].dest \notin Dests(s[1])

\* The error a thread raised out of its pipeline: the worker's is stored in
\* its result slot when the thread ends.
Raised(th) == IF th = "worker" /\ pc[th] = "finished" THEN result.error ELSE exc[th]

\* C28: a nonzero exit and a missing executable are two distinguishable
\* failures. The error raised for a step that exited nonzero names the step
\* and carries its exit code; the error raised for a step whose executable
\* was not found names the step and carries the command name, and no exit
\* code; the two are never equal. Either one aborts the pipeline.
C28_ExitAndNotFoundAreDistinguished ==
    /\ \A s \in Steps :
          /\ step[s].status = "failed"
                => /\ Raised(step[s].by).type = "SyncError"
                   /\ Raised(step[s].by).step = s
                   /\ Raised(step[s].by).cause = "exit"
                   /\ Raised(step[s].by).code = step[s].code
                   /\ step[s].code # 0
                   /\ Aborted(s)
          /\ step[s].status = "not found"
                => /\ Raised(step[s].by).type = "SyncError"
                   /\ Raised(step[s].by).step = s
                   /\ Raised(step[s].by).cause = "command not found"
                   /\ Raised(step[s].by).command = "cargo"
                   /\ "code" \notin DOMAIN Raised(step[s].by)
                   /\ Aborted(s)
    /\ \A s1, s2 \in Steps : \A code \in ReturnCodes \ {0} :
          ExitError(s1[1], s1[2], code) # NotFoundError(s2[1], s2[2])

\* The host debug step exited nonzero in main and the worker's wasm debug step
\* did not find its executable.
C28_Witness ==
    /\ step[<<"mac", "debug">>].status = "failed"
    /\ step[<<"wasm", "debug">>].status = "not found"
    /\ Raised("main").cause = "exit"
    /\ Raised("worker").cause = "command not found"
    /\ Exited

\* ------------------------------------------------------------------------
\* C29: the serialized mode

\* Both targets are requested and --no-background-wasm is given.
Serialized == args # NoArgs /\ targets = {"mac", "wasm"} /\ args.no_background_wasm

\* build_wasm was entered, or left a trace.
WasmBegun ==
    \/ \E p \in Profiles : Launched(<<"wasm", p>>)
    \/ pipe["wasm"] # "idle"
    \/ which_emcc # "not asked"
    \/ wasmLog # <<>>
    \/ \E th \in Threads : cur[th] = "wasm"

\* build_mac returned: both host steps exited with 0 and copy_native_artifacts
\* made its six calls.
HostFinished ==
    /\ pipe["mac"] = "done"
    /\ BuiltOk("mac")
    /\ Len(copyCalls["main"]) >= Len(NativeCopies)
    /\ \A i \in 1..Len(NativeCopies) :
          /\ copyCalls["main"][i].dest = NativeCopies[i].dest
          /\ copyCalls["main"][i].result # "raised"

\* C29: with both targets requested and background disabled the pipelines are
\* serialized: there is no worker, the wasm pipeline is begun by main and only
\* after the host pipeline has finished successfully, deployment included;
\* when the host pipeline fails the wasm pipeline does not run at all.
C29_SerializedModeRunsHostFirst ==
    Serialized
        => /\ threads = <<>>
           /\ pc["worker"] = "unborn"
           /\ \A p \in Profiles : step[<<"wasm", p>>].by \in {"nobody", "main"}
           /\ WasmBegun => HostFinished
           /\ pipe["mac"] = "failed" => ~WasmBegun
           /\ (Exited /\ pipe["mac"] # "done") => ~WasmBegun

\* A serialized run built the host, then wasm, and ended with exit code 0.
C29_Witness ==
    /\ Serialized
    /\ HostFinished
    /\ pipe["wasm"] = "done"
    /\ \A p \in Profiles : step[<<"wasm", p>>].by = "main"
    /\ exitCode = 0

\* ------------------------------------------------------------------------
\* C30: log archiving in the order of the run

\* archive_godot_logs was called, or the logs are no longer as the run found
\* them.
ArchivingBegun ==
    \/ archiveOps # <<>>
    \/ pc["main"] \in {"restart", "complete"}
    \/ archive # InitialArchive
    \/ liveLog \notin InitialLiveLogs

\* C30: log archiving runs only after every requested pipeline has finished
\* successfully and the worker has been joined, and before the editor is
\* relaunched; the live log is empty when the editor is relaunched; in a run
\* that exits with code 1 neither the archive nor the live log is modified.
C30_ArchiveAfterPipelinesBeforeRelaunch ==
    /\ ArchivingBegun
          => /\ AllPipelinesCompleted
             /\ \A s \in Steps : ~InFlight(s)
             /\ threads # <<>> => (joined /\ pc["worker"] = "finished")
    /\ pc["main"] = "archive" => ~relaunched
    /\ relaunched
          => /\ archiveOps # <<>>
             /\ liveLog = File(<<>>)
    /\ exitCode = 1
          => /\ archive = InitialArchive
             /\ liveLog \in InitialLiveLogs

\* ------------------------------------------------------------------------
\* C31: what the truncation of the live log discards

\* The archive ends with the lines t.
IsSuffix(t, s) == Len(t) <= Len(s) /\ SubSeq(s, Len(s) - Len(t) + 1, Len(s)) = t

\* The call of archive_godot_logs truncates a live log that was not empty.
TruncatesContent ==
    /\ ArchiveCall
    /\ liveLog.exists /\ Len(liveLog.lines) > 0
    /\ liveLog' = File(<<>>)

\* C31: archive_godot_logs never discards live-log content that was not
\* archived: whenever it truncates a live log that was not empty, the full
\* content of that log, after its separator line, is at the end of the
\* archive, also when the append met a filesystem error.
C31_TruncationDiscardsNothing ==
    [][TruncatesContent => (archive'.exists /\ IsSuffix(Block(liveLog), archive'.lines))]_vars

\* ------------------------------------------------------------------------
\* C32: the wasm debug candidates

\* The calls a step adds to those of main.
NewCalls == SubSeq(copyCalls'["main"], Len(copyCalls["main"]) + 1, Len(copyCalls'["main"]))

\* A step that is a whole copy_wasm_artifacts, no copy refused by the file
\* system.
WasmDeployment ==
    /\ NewCalls # <<>>
    /\ NewCalls[1].src = WasmCopies[1].src
    /\ NewCalls[Len(NewCalls)].result # "raised"

DebugWasm == WasmCopies[1].dest
ReleaseWasm == WasmCopies[3].dest

\* C32: wasm debug-artifact discovery copies at most one candidate to the
\* debug destination: the dev-wasm layout is tried first and, when it exists,
\* the debug layout is not even tried; when neither exists the debug
\* destination is left as it was and no error is raised; the release artifact
\* is copied, or skipped, whatever became of the debug one.
C32_OneDebugCandidateIsCopied ==
    [][ WasmDeployment
          => /\ exc'["main"] = NoError
             /\ Cardinality({i \in 1..Len(NewCalls) :
                   NewCalls[i].dest = DebugWasm /\ NewCalls[i].result = "copied"}) <= 1
             /\ WasmCopies[1].src \in built
                   => /\ plugin'[DebugWasm] = WasmCopies[1].src
                      /\ \A i \in 1..Len(NewCalls) : NewCalls[i].src # WasmCopies[2].src
             /\ (WasmCopies[1].src \notin built /\ WasmCopies[2].src \in built)
                   => plugin'[DebugWasm] = WasmCopies[2].src
             /\ (WasmCopies[1].src \notin built /\ WasmCopies[2].src \notin built)
                   => plugin'[DebugWasm] = plugin[DebugWasm]
             /\ NewCalls[Len(NewCalls)].src = WasmCopies[3].src
             /\ plugin'[ReleaseWasm] =
                   IF WasmCopies[3].src \in built THEN WasmCopies[3].src ELSE plugin[ReleaseWasm]
             /\ \A d \in Dests("mac") : plugin'[d] = plugin[d] ]_vars

\* Both debug layouts were there and no release artifact: the dev-wasm one
\* was deployed in two calls.
C32_Witness ==
    /\ built = {WasmCopies[1].src, WasmCopies[2].src}
    /\ Len(copyCalls["main"]) = 2
    /\ copyCalls["main"][1].result = "copied"
    /\ copyCalls["main"][2].result = "not copied"
    /\ plugin[DebugWasm] = WasmCopies[1].src
    /\ plugin[ReleaseWasm] = Absent

\* ------------------------------------------------------------------------
\* C33: the log of a Process Runner invocation

\* What one invocation with a log whose process has ended leaves in the log:
\* the session header, then the output lines of the process in their order.
Session(p) ==
    << <<"header", p>> >> \o [k \in 1..MaxLines |-> <<"line", p, ToString(k)>>]

\* The invocation for the step s has ended: on success, on a nonzero exit, or
\* because the command was not found.
Returned(s) == step[s].status \in {"ok", "failed", "not found"}

\* What the log holds of the invocation for the wasm step of profile p: the
\* part of the log from where `before` lines end.
Logged(before, n) == SubSeq(wasmLog, before + 1, before + n)

\* C33: for one Process Runner invocation with a log file the session header
\* is written exactly once and before any output line, every output line of
\* the process is appended in the order it was produced, whether or not quiet
\* is set, and the log is closed on every exit path: the log of a run is the
\* sessions of its wasm steps one after the other, each as far as its process
\* has got, and a thread holds the log open only while it reads the output of
\* a process.
C33_LogHoldsHeaderThenEveryLine ==
    /\ IsPrefix(wasmLog, Session("debug") \o Session("release"))
    /\ \A p \in Profiles :
          LET s == <<"wasm", p>>
              before == IF p = "debug" THEN 0 ELSE Len(Session("debug"))
          IN /\ Launched(s) => Logged(before, 1) = << <<"header", p>> >>
             /\ (Returned(s) /\ step[s].status # "not found")
                   => Logged(before, Len(Session(p))) = Session(p)
             /\ step[s].status = "not found" => Len(wasmLog) = before + 1
             /\ Returned(s) => \A th \in Threads : (cur[th] = "wasm" /\ prof[th] = p) => ~logOpen[th]
             /\ \A th \in Threads :
                   (pc[th] = "stream" /\ cur[th] = "wasm" /\ prof[th] = p)
                      => Len(wasmLog) = before + 1 + nlines[th]
    /\ \A th \in Threads : logOpen[th] => (cur[th] = "wasm" /\ pc[th] \in {"stream", "killed"})
    /\ ~HasLog("mac")

\* The worker, which is quiet, has run both wasm steps to the end, the second
\* one failing; the log holds both sessions and nothing on the terminal shows
\* their lines.
C33_Witness ==
    /\ step[<<"wasm", "debug">>].by = "worker"
    /\ step[<<"wasm", "release">>].status = "failed"
    /\ wasmLog = Session("debug") \o Session("release")
    /\ \A m \in terminal : ~(m.about = "wasm" /\ m.text[1] = "line")
    /\ \A th \in Threads : ~logOpen[th]

\* ------------------------------------------------------------------------
\* C34: background mode and serialized mode

\* The copy_artifact calls of the wasm deployment, whichever thread made them.
WasmCalls(th) == {i \in 1..Len(copyCalls[th]) : copyCalls[th][i].dest \in Dests("wasm")}

\* What the run met, whichever thread met it: the wasm pipeline failed in a
\* build step or in a copy.
WasmFailed ==
    \/ StepFailedOf("wasm")
    \/ \E th \in Threads : \E i \in WasmCalls(th) : copyCalls[th][i].result = "raised"

\* The exit code that the outcomes of the wasm build steps, of the copies and
\* of the archive and relaunch call for, once the host pipeline succeeded.
ExpectedExit == IF WasmFailed \/ uncaught \in AdvisoryOperations THEN 1 ELSE 0

\* The files under plugin/bin that the build output trees call for: the host
\* artifacts that exist, and, when both wasm steps exited with 0, the wasm
\* artifacts that exist, up to a copy the file system refused.
ExpectedPlugin ==
    LET host == Deployed([files |-> InitialPlugin, dirs |-> PluginDirs], "mac",
                         Performed("mac", built \cap Sources("mac"), 1),
                         Len(Performed("mac", built \cap Sources("mac"), 1)))
        todo == Performed("wasm", built \cap Sources("wasm"), 1)
        copied == Cardinality(UNION { {<<th, i>> : i \in {j \in WasmCalls(th) :
                                          copyCalls[th][j].result = "copied"}} : th \in Threads })
    IN IF which_emcc = "found" /\ BuiltOk("wasm")
       THEN Deployed(host, "wasm", todo, copied).files
       ELSE host.files

\* C34: when the host pipeline succeeds, background mode and serialized mode
\* agree on the final result: in either mode the exit code and the deployed
\* files of a run that has ended are what the outcomes of the build steps,
\* the build output trees and the file system call for, with no regard to the
\* thread that ran the wasm pipeline.
C34_ModesAgreeOnTheResult ==
    (Exited /\ targets = {"mac", "wasm"} /\ pipe["mac"] = "done")
        => /\ exitCode = ExpectedExit
           /\ plugin = ExpectedPlugin
           /\ \A t \in Targets : pipe[t] \in {"done", "skipped", "failed"}
           /\ \A s \in Steps : ~InFlight(s)

\* A background run whose host pipeline deployed its artifacts and whose wasm
\* release step failed in the worker has ended with exit code 1.
C34_Witness ==
    /\ Exited /\ threads # <<>> /\ joined
    /\ pipe["mac"] = "done"
    /\ step[<<"wasm", "release">>].status = "failed"
    /\ step[<<"wasm", "release">>].by = "worker"
    /\ exitCode = 1
    /\ \E d \in Dests("mac") : plugin[d] \notin {Absent, Old}

\* ------------------------------------------------------------------------
\* C35: termination

\* Every external process that was launched exits.
EveryProcessExits == \A s \in Steps : step[s].status # "hung"

\* C35: if every external process that is launched eventually exits, the run
\* terminates: main reaches the final success state or an exit with code 1,
\* and so gets past its join on the worker.
C35_RunTerminates ==
    ([]EveryProcessExits) => <>(Exited /\ exitCode \in {0, 1} /\ pc["main"] \in {"done", "exited"})

\* A background run got past the join after the worker's pipeline and ended
\* with success, all four processes having exited with 0.
C35_Witness ==
    /\ pc["main"] = "done" /\ exitCode = 0
    /\ joined /\ pc["worker"] = "finished"
    /\ \A s \in Steps : step[s].status = "ok"
    /\ EveryProcessExits

\* ------------------------------------------------------------------------
\* C36

\* The termination step has printed what it did.
TerminateReported == \E o \in TerminateOutcomes : TerminateMessage(o) \in terminal

\* The run ended with a failure of a pipeline, not of an advisory operation.
BuildFailureExit == exitCode = 1 /\ uncaught \notin AdvisoryOperations

\* What a failed run leaves behind.
FailedRunLeaves ==
    exitCode = 1 =>
        /\ PastTerminate /\ TerminateReported
        /\ ~relaunched
        /\ \A w \in wrote : plugin[w[3]] \in Sources(w[2])

FailedBuildLeaves ==
    BuildFailureExit =>
        /\ archiveOps = <<>>
        /\ archive = InitialArchive
        /\ liveLog \in InitialLiveLogs

\* C36 as stated: in a run that exits with code 1 the editor has been
\* force-terminated and is left not running, is not relaunched, the log is
\* not archived after a build failure and deployed artifacts stay in place.
C36_FailedRunLeavesEditorStopped ==
    /\ FailedRunLeaves
    /\ FailedBuildLeaves
    /\ exitCode = 1 => godot = "stopped"

\* C36, amended: in a run that exits with code 1 the termination step has
\* already run and reported, and the editor is not relaunched: an editor that
\* pkill terminated, or that was not running, is left not running, and only
\* an editor that pkill could not terminate (pkill missing, or signalling
\* nothing) is still running.  After a build failure the log is not archived,
\* and artifacts a pipeline deployed earlier in the run stay in place.
C36_FailedRunNeverRelaunchesOrRestores ==
    /\ [](/\ FailedRunLeaves
          /\ FailedBuildLeaves
          /\ exitCode = 1 /\ TerminateMessage("terminated") \in terminal => godot = "stopped"
          /\ exitCode = 1 /\ godot = "running" =>
                  \E o \in {"none", "no pkill"} : TerminateMessage(o) \in terminal)
    /\ [][godot' # godot =>
             \/ pc["main"] = "terminate_godot" /\ godot' = "stopped"
             \/ relaunched' /\ exitCode' # 1]_vars

\* The host pipeline deployed its artifacts, then the in-line wasm build
\* failed: exit code 1, the terminated editor stays down, the log is not
\* archived and the host artifacts are still in place.
C36_Witness ==
    /\ exitCode = 1
    /\ TerminateMessage("terminated") \in terminal /\ godot = "stopped"
    /\ pipe["mac"] = "done" /\ pipe["wasm"] = "failed"
    /\ \E w \in wrote : w[2] = "mac" /\ plugin[w[3]] \in Sources("mac")
    /\ ~relaunched /\ archiveOps = <<>>

\* ------------------------------------------------------------------------
\* C37

WorkerEnded == pc["worker"] \in {"finished", "killed"}

\* The slot holds what the wasm pipeline raised in the worker, or nothing.
SlotHoldsTheException ==
    /\ pc["worker"] = "finished" =>
          /\ exc["worker"] = NoError
          /\ pipe["wasm"] = "failed" <=> result.error # NoError
          /\ result.error # NoError =>
                /\ result.error.type \in {"SyncError", "OSError"}
                /\ slotWrites = <<"worker">>
    /\ pc["worker"] # "unborn" => uncaught # "build_wasm"

\* The handler stores the very exception that was raised, and a worker that
\* raised does nothing else.
WorkerStoresWhatWasRaised ==
    pc["worker"] = "raised" =>
        /\ pc'["worker"] \in {"raised", "finished", "killed"}
        /\ pc'["worker"] = "finished" => result'.error = exc["worker"] /\ result'.error # NoError

\* C37: the worker stores every exception raised inside the wasm pipeline (a
\* build failure or any other exception, such as a filesystem error while
\* copying) in its result slot, no exception escapes the thread, and, when its
\* build steps return, the worker thread terminates.
C37_WorkerStoresEveryExceptionAndEnds ==
    /\ []SlotHoldsTheException
    /\ [][WorkerStoresWhatWasRaised]_vars
    /\ ([]EveryProcessExits) => (pc["worker"] # "unborn" ~> WorkerEnded)

\* A worker whose copy raised OSError ended with that error in its slot.
C37_Witness ==
    /\ pc["worker"] = "finished"
    /\ result.error = OSErrorOf("wasm")
    /\ \A s \in Steps : s[1] = "wasm" => step[s].status = "ok"

\* ------------------------------------------------------------------------
\* C38

\* What the archive holds when the second part of the call begins.
ArchiveAtAppend ==
    IF InSeq("reset archive", archiveOps') THEN File(<<>>) ELSE archive

\* No OSError was swallowed or raised in the second part of the call.
AppendPartSucceeds ==
    /\ ArchiveCall
    /\ ~InSeq("append cut short", archiveOps')
    /\ InSeq("truncate live log", archiveOps')

AppendsByLiveLog ==
    AppendPartSucceeds =>
        /\ liveLog' = File(<<>>)
        /\ IF ~liveLog.exists \/ Len(liveLog.lines) = 0
           THEN /\ archive' = ArchiveAtAppend
                /\ ~InSeq("append", archiveOps')
           ELSE /\ archive'.exists
                /\ Len(archive'.lines) = Len(ArchiveAtAppend.lines) + Len(liveLog.lines) + 2
                /\ archive'.lines = ArchiveAtAppend.lines \o <<"----- Archived on -----">>
                                       \o liveLog.lines \o <<"">>

\* C38: when the live log is absent or empty on entry, archive_godot_logs
\* appends nothing to the archive, not even a separator line, and leaves the
\* live log existing and empty; when the live log is not empty, the archive
\* grows by exactly one separator line, the live log's content and one
\* newline (calls whose file operations succeed).
C38_ArchiveGrowsByTheLiveLogOrNotAtAll == [][AppendsByLiveLog]_vars

\* A first run archived the editor's output; the next run found the live log
\* empty and left the archive as it was.
C38_Witness ==
    /\ archiveOps = <<"truncate live log">>
    /\ pc["main"] = "restart"
    /\ liveLog = File(<<>>)
    /\ Len(archive.lines) = 3
    /\ archive.lines[1] = "----- Archived on -----"
    /\ archive.lines[2] \in EditorOutput
    /\ archive.lines[3] = ""

\* ------------------------------------------------------------------------
\* C39

\* How often the directory is an entry of the search path of e.
RustupCount(e) ==
    Cardinality({ i \in 1..Len(PathEntries(e)) : PathEntries(e)[i] = rustup_bin })

\* The step in which a run resolves its search path.
PathStep == pc["main"] = "resolve_env" /\ pc'["main"] = "configure_cache"

\* The directory is prepended only when it was not an entry, in front of the
\* entries there were, and so is an entry at most once more than before.
PrependedOnlyWhenMissing ==
    PathStep =>
        /\ base_env' # os_environ' =>
              /\ ~InSeq(rustup_bin, PathEntries(os_environ'))
              /\ PathEntries(base_env') = <<rustup_bin>> \o PathEntries(os_environ')
        /\ RustupCount(base_env') <= RustupCount(os_environ) + 1

\* A run started from a resolved environment leaves its search path as it is.
ResolvedIsAFixedPoint ==
    (PathStep /\ os_environ' # os_environ) =>
        /\ base_env' = os_environ'
        /\ RustupCount(base_env') = 1

\* C39: prepending the user-local toolchain directory to the search path is
\* idempotent: it is prepended only when it exists and is not already an
\* entry, so that resolving an already resolved environment leaves the search
\* path unchanged, and the directory is an entry at most once more than in the
\* ambient path.
C39_PrependIsIdempotent ==
    /\ [][PrependedOnlyWhenMissing]_vars
    /\ [][ResolvedIsAFixedPoint]_vars

\* A run started from an environment that had been resolved from the longest
\* PATH without the directory: the directory is its first entry, once, before
\* the entries there were, and resolving again changed nothing.
C39_Witness ==
    /\ pc["main"] = "configure_cache"
    /\ base_env = os_environ
    /\ "PATH" \in DOMAIN base_env
    /\ Len(base_env["PATH"]) = MaxPath + 1
    /\ base_env["PATH"][1] = rustup_bin
    /\ RustupCount(base_env) = 1

====
